---- MODULE Spec2Model ----
(***************************************************************************)
(* A model of abstractrepo_sqlalchemy: the generic CRUD repository over a  *)
(* relational backend, in its blocking (SqlAlchemyCrudRepository) and its  *)
(* suspending (AsyncSqlAlchemyCrudRepository) flavour, together with the   *)
(* specification converter and the evaluation of the converted tree into a *)
(* SQL condition.  The two flavours are run in lock step on two stores     *)
(* that start equal: every public call is made on both with the same       *)
(* arguments and both outcomes are recorded.                               *)
(*                                                                         *)
(* The stored table merges the constraint kinds of the two fixture tables: *)
(* an auto-assigned integer primary key, a NOT NULL UNIQUE string column   *)
(* (username), a nullable string column (text) and a nullable foreign key  *)
(* (author_id).                                                            *)
(***************************************************************************)
EXTENDS Integers, Sequences, FiniteSets, TLC

\* ---------------------------------------------------------------- bounds
\* Largest primary key the backend hands out (caps the table size).
MaxId == 2
\* Largest number of children of an And / Or node in the generated filters.
MaxChildren == 2
MaxDepth == 2
FixtureRows == 3
\* Largest limit and page size of the pagings a caller asks for.
MaxLimit == 2

\* ---------------------------------------------------------------- values
\* A Python / SQL value: None, an int, a str, a list of values, or a tuple of
\* values.
NULL == [t |-> "null", i |-> 0, s |-> "", l |-> <<>>]
IntV(n) == [t |-> "int", i |-> n, s |-> "", l |-> <<>>]
StrV(x) == [t |-> "str", i |-> 0, s |-> x, l |-> <<>>]
ListV(xs) == [t |-> "list", i |-> 0, s |-> "", l |-> xs]
TupleV(xs) == [t |-> "tuple", i |-> 0, s |-> "", l |-> xs]

IsNull(v) == v.t = "null"

\* ---------------------------------------------------------------- strings
UpperChars == "ABCDEFGHIJKLMNOPQRSTUVWXYZ"
LowerChars == "abcdefghijklmnopqrstuvwxyz"

CharAt(s, i) == SubSeq(s, i, i)

\* str.lower() on one character.
LowerChar(c) ==
    IF \E i \in 1..Len(UpperChars) : CharAt(UpperChars, i) = c
    THEN CharAt(LowerChars, CHOOSE i \in 1..Len(UpperChars) : CharAt(UpperChars, i) = c)
    ELSE c

RECURSIVE Lower(_)
\* str.lower(): every cased character mapped to lower case.
Lower(s) == IF Len(s) = 0 THEN "" ELSE LowerChar(CharAt(s, 1)) \o Lower(SubSeq(s, 2, Len(s)))

\* Python's `marker in s` on strings: s has marker as a contiguous substring.
Contains(s, marker) ==
    \E i \in 1..(Len(s) - Len(marker) + 1) : SubSeq(s, i, i + Len(marker) - 1) = marker

\* Rank of a character in the collation of the stored strings (binary order:
\* digits, then upper case, then lower case).
Collation == "0123456789" \o UpperChars \o LowerChars
CharRank(c) ==
    IF \E i \in 1..Len(Collation) : CharAt(Collation, i) = c
    THEN CHOOSE i \in 1..Len(Collation) : CharAt(Collation, i) = c
    ELSE 0

RECURSIVE StrLess(_, _)
\* a < b on strings, lexicographically by character rank.
StrLess(a, b) ==
    IF Len(b) = 0 THEN FALSE
    ELSE IF Len(a) = 0 THEN TRUE
    ELSE IF CharAt(a, 1) = CharAt(b, 1) THEN StrLess(SubSeq(a, 2, Len(a)), SubSeq(b, 2, Len(b)))
    ELSE CharRank(CharAt(a, 1)) < CharRank(CharAt(b, 1))

RECURSIVE LikeMatch(_, _)
\* SQL LIKE with the wildcards % (any sequence) and _ (any one character),
\* case-sensitive.
LikeMatch(s, p) ==
    IF Len(p) = 0 THEN Len(s) = 0
    ELSE IF CharAt(p, 1) = "%"
         THEN \E k \in 0..Len(s) : LikeMatch(SubSeq(s, k + 1, Len(s)), SubSeq(p, 2, Len(p)))
    ELSE IF Len(s) = 0 THEN FALSE
    ELSE /\ (CharAt(p, 1) = "_" \/ CharAt(p, 1) = CharAt(s, 1))
         /\ LikeMatch(SubSeq(s, 2, Len(s)), SubSeq(p, 2, Len(p)))

\* ------------------------------------------------- the stored table's columns
\* Column names resolvable on the database model class (getattr succeeds).
Columns == {"id", "username", "text", "author_id"}

\* The value of column c of a stored row.
ColumnValue(row, c) ==
    CASE c = "id" -> IntV(row.id)
      [] c = "username" -> row.username
      [] c = "text" -> row.text
      [] c = "author_id" -> row.author_id

\* ------------------------------------------------- specification trees
\* abstractrepo's Operator enumeration (the closed operator set).
Operators == {"E", "NE", "GT", "LT", "GTE", "LTE", "LIKE", "ILIKE", "IN", "NOT_IN"}

\* Caller-side nodes: AttributeSpecification, AndSpecification,
\* OrSpecification, NotSpecification; "Other" is any object that is none of
\* them (a raw mapping, say).
AttributeSpecification(name, value, op) ==
    [kind |-> "Attr", name |-> name, value |-> value, op |-> op, specs |-> <<>>]
AndSpecification(specs) ==
    [kind |-> "And", name |-> "", value |-> NULL, op |-> "", specs |-> specs]
OrSpecification(specs) ==
    [kind |-> "Or", name |-> "", value |-> NULL, op |-> "", specs |-> specs]
NotSpecification(spec) ==
    [kind |-> "Not", name |-> "", value |-> NULL, op |-> "", specs |-> <<spec>>]
OtherObject == [kind |-> "Other", name |-> "", value |-> NULL, op |-> "", specs |-> <<>>]

\* Backend-side nodes produced by the converter.
SqlAlchemyAttributeSpecification(name, value, op) ==
    [kind |-> "SaAttr", name |-> name, value |-> value, op |-> op, specs |-> <<>>]
SqlAlchemyAndSpecification(specs) ==
    [kind |-> "SaAnd", name |-> "", value |-> NULL, op |-> "", specs |-> specs]
SqlAlchemyOrSpecification(specs) ==
    [kind |-> "SaOr", name |-> "", value |-> NULL, op |-> "", specs |-> specs]
SqlAlchemyNotSpecification(spec) ==
    [kind |-> "SaNot", name |-> "", value |-> NULL, op |-> "", specs |-> <<spec>>]

\* The outcome of a step that may raise: err = "none" and a value, or the
\* kind of the raised error.
Returned(v) == [err |-> "none", val |-> v]
Raised(kind) == [err |-> kind, val |-> OtherObject]

\* The error of the first element (in sequence order) that raised, "none"
\* when none did: a list comprehension stops at the first exception.
FirstError(rs) ==
    IF \E i \in DOMAIN rs : rs[i].err # "none"
    THEN rs[CHOOSE i \in DOMAIN rs : /\ rs[i].err # "none"
                                     /\ \A j \in 1..(i - 1) : rs[j].err = "none"].err
    ELSE "none"

RECURSIVE convert(_)
\* convert, had it handed back a node of no known kind as it is.
convert_PassesUnknown(specification) ==
    IF specification.kind \in {"And", "Or"}
    THEN LET cs == [i \in DOMAIN specification.specs |-> convert(specification.specs[i])]
             vals == [i \in DOMAIN cs |-> cs[i].val]
         IN  IF FirstError(cs) # "none" THEN Raised(FirstError(cs))
             ELSE IF specification.kind = "And"
                  THEN Returned(SqlAlchemyAndSpecification(vals))
                  ELSE Returned(SqlAlchemyOrSpecification(vals))
    ELSE IF specification.kind = "Not"
    THEN LET c == convert(specification.specs[1])
         IN  IF c.err # "none" THEN Raised(c.err)
             ELSE Returned(SqlAlchemyNotSpecification(c.val))
    ELSE IF specification.kind = "Attr"
    THEN Returned(SqlAlchemyAttributeSpecification(
             specification.name, specification.value, specification.op))
    ELSE Returned(specification)

\* convert, had it collected the children of an And / Or last to first.
convert_Reversed(specification) ==
    IF specification.kind \in {"And", "Or"}
    THEN LET n == Len(specification.specs)
             cs == [i \in 1..n |-> convert(specification.specs[n + 1 - i])]
             vals == [i \in DOMAIN cs |-> cs[i].val]
         IN  IF FirstError(cs) # "none" THEN Raised(FirstError(cs))
             ELSE IF specification.kind = "And"
                  THEN Returned(SqlAlchemyAndSpecification(vals))
                  ELSE Returned(SqlAlchemyOrSpecification(vals))
    ELSE IF specification.kind = "Not"
    THEN LET c == convert(specification.specs[1])
         IN  IF c.err # "none" THEN Raised(c.err)
             ELSE Returned(SqlAlchemyNotSpecification(c.val))
    ELSE IF specification.kind = "Attr"
    THEN Returned(SqlAlchemyAttributeSpecification(
             specification.name, specification.value, specification.op))
    ELSE Raised("TypeError")

\* SqlAlchemySpecificationConverter.convert
convert(specification) ==
    IF specification.kind \in {"And", "Or"}
    THEN LET cs == [i \in DOMAIN specification.specs |-> convert(specification.specs[i])]
             vals == [i \in DOMAIN cs |-> cs[i].val]
         IN  IF FirstError(cs) # "none" THEN Raised(FirstError(cs))
             ELSE IF specification.kind = "And"
                  THEN Returned(SqlAlchemyAndSpecification(vals))
                  ELSE Returned(SqlAlchemyOrSpecification(vals))
    ELSE IF specification.kind = "Not"
    THEN LET c == convert(specification.specs[1])
         IN  IF c.err # "none" THEN Raised(c.err)
             ELSE Returned(SqlAlchemyNotSpecification(c.val))
    ELSE IF specification.kind = "Attr"
    THEN Returned(SqlAlchemyAttributeSpecification(
             specification.name, specification.value, specification.op))
    ELSE Raised("TypeError")

\* ------------------------------------------------- SQL conditions
\* A column comparison; sqlop is the SQL operator the ORM renders.
Comparison(col, sqlop, value) ==
    [kind |-> "cmp", col |-> col, sqlop |-> sqlop, value |-> value, args |-> <<>>]
\* sqlalchemy.and_ / or_ / not_
and_(args) == [kind |-> "and", col |-> "", sqlop |-> "", value |-> NULL, args |-> args]
or_(args) == [kind |-> "or", col |-> "", sqlop |-> "", value |-> NULL, args |-> args]
not_(arg) == [kind |-> "not", col |-> "", sqlop |-> "", value |-> NULL, args |-> <<arg>>]
\* The condition of a query nobody filtered.
TrueCondition == [kind |-> "true", col |-> "", sqlop |-> "", value |-> NULL, args |-> <<>>]

\* A step that builds a condition: the condition, or the error raised.
Built(e) == [err |-> "none", val |-> e]
NotBuilt(kind) == [err |-> kind, val |-> TrueCondition]

\* The leaf's is_satisfied_by, had it rendered a comparison with None as
\* = NULL and != NULL.
AttributeIsSatisfiedBy_NullEquality(self) ==
    IF self.name \notin Columns THEN NotBuilt("AttributeError")
    ELSE IF self.op = "E"
         THEN Built(Comparison(self.name, "=", self.value))
    ELSE IF self.op = "NE"
         THEN Built(Comparison(self.name, "!=", self.value))
    ELSE IF self.op = "GT" THEN Built(Comparison(self.name, ">", self.value))
    ELSE IF self.op = "LT" THEN Built(Comparison(self.name, "<", self.value))
    ELSE IF self.op = "GTE" THEN Built(Comparison(self.name, ">=", self.value))
    ELSE IF self.op = "LTE" THEN Built(Comparison(self.name, "<=", self.value))
    ELSE IF self.op = "LIKE" THEN Built(Comparison(self.name, "LIKE", self.value))
    ELSE IF self.op = "ILIKE" THEN Built(Comparison(self.name, "ILIKE", self.value))
    ELSE IF self.op = "IN"
         THEN IF self.value.t = "list" THEN Built(Comparison(self.name, "IN", self.value))
              ELSE NotBuilt("ValueError")
    ELSE IF self.op = "NOT_IN"
         THEN IF self.value.t = "list" THEN Built(Comparison(self.name, "NOT IN", self.value))
              ELSE NotBuilt("ValueError")
    ELSE NotBuilt("TypeError")

\* The leaf's is_satisfied_by, had it wrapped a scalar given to IN / NOT_IN
\* in a list instead of refusing it.
AttributeIsSatisfiedBy_WrapScalar(self) ==
    IF self.name \notin Columns THEN NotBuilt("AttributeError")
    ELSE IF self.op = "E"
         THEN Built(Comparison(self.name, IF IsNull(self.value) THEN "IS" ELSE "=", self.value))
    ELSE IF self.op = "NE"
         THEN Built(Comparison(self.name, IF IsNull(self.value) THEN "IS NOT" ELSE "!=", self.value))
    ELSE IF self.op = "GT" THEN Built(Comparison(self.name, ">", self.value))
    ELSE IF self.op = "LT" THEN Built(Comparison(self.name, "<", self.value))
    ELSE IF self.op = "GTE" THEN Built(Comparison(self.name, ">=", self.value))
    ELSE IF self.op = "LTE" THEN Built(Comparison(self.name, "<=", self.value))
    ELSE IF self.op = "LIKE" THEN Built(Comparison(self.name, "LIKE", self.value))
    ELSE IF self.op = "ILIKE" THEN Built(Comparison(self.name, "ILIKE", self.value))
    ELSE IF self.op = "IN"
         THEN IF self.value.t = "list" THEN Built(Comparison(self.name, "IN", self.value))
              ELSE Built(Comparison(self.name, "IN", ListV(<<self.value>>)))
    ELSE IF self.op = "NOT_IN"
         THEN IF self.value.t = "list" THEN Built(Comparison(self.name, "NOT IN", self.value))
              ELSE Built(Comparison(self.name, "NOT IN", ListV(<<self.value>>)))
    ELSE NotBuilt("TypeError")

\* The leaf's is_satisfied_by, had it accepted every sequence for IN and
\* NOT_IN (isinstance(value, (list, tuple))).
AttributeIsSatisfiedBy_AnySequence(self) ==
    IF self.name \notin Columns THEN NotBuilt("AttributeError")
    ELSE IF self.op = "E"
         THEN Built(Comparison(self.name, IF IsNull(self.value) THEN "IS" ELSE "=", self.value))
    ELSE IF self.op = "NE"
         THEN Built(Comparison(self.name, IF IsNull(self.value) THEN "IS NOT" ELSE "!=", self.value))
    ELSE IF self.op = "GT" THEN Built(Comparison(self.name, ">", self.value))
    ELSE IF self.op = "LT" THEN Built(Comparison(self.name, "<", self.value))
    ELSE IF self.op = "GTE" THEN Built(Comparison(self.name, ">=", self.value))
    ELSE IF self.op = "LTE" THEN Built(Comparison(self.name, "<=", self.value))
    ELSE IF self.op = "LIKE" THEN Built(Comparison(self.name, "LIKE", self.value))
    ELSE IF self.op = "ILIKE" THEN Built(Comparison(self.name, "ILIKE", self.value))
    ELSE IF self.op = "IN"
         THEN IF self.value.t \in {"list", "tuple"} THEN Built(Comparison(self.name, "IN", self.value))
              ELSE NotBuilt("ValueError")
    ELSE IF self.op = "NOT_IN"
         THEN IF self.value.t \in {"list", "tuple"} THEN Built(Comparison(self.name, "NOT IN", self.value))
              ELSE NotBuilt("ValueError")
    ELSE NotBuilt("TypeError")

\* SqlAlchemyAttributeSpecification.is_satisfied_by
AttributeIsSatisfiedBy(self) ==
    IF self.name \notin Columns THEN NotBuilt("AttributeError")
    ELSE IF self.op = "E"
         THEN Built(Comparison(self.name, IF IsNull(self.value) THEN "IS" ELSE "=", self.value))
    ELSE IF self.op = "NE"
         THEN Built(Comparison(self.name, IF IsNull(self.value) THEN "IS NOT" ELSE "!=", self.value))
    ELSE IF self.op = "GT" THEN Built(Comparison(self.name, ">", self.value))
    ELSE IF self.op = "LT" THEN Built(Comparison(self.name, "<", self.value))
    ELSE IF self.op = "GTE" THEN Built(Comparison(self.name, ">=", self.value))
    ELSE IF self.op = "LTE" THEN Built(Comparison(self.name, "<=", self.value))
    ELSE IF self.op = "LIKE" THEN Built(Comparison(self.name, "LIKE", self.value))
    ELSE IF self.op = "ILIKE" THEN Built(Comparison(self.name, "ILIKE", self.value))
    ELSE IF self.op = "IN"
         THEN IF self.value.t = "list" THEN Built(Comparison(self.name, "IN", self.value))
              ELSE NotBuilt("ValueError")
    ELSE IF self.op = "NOT_IN"
         THEN IF self.value.t = "list" THEN Built(Comparison(self.name, "NOT IN", self.value))
              ELSE NotBuilt("ValueError")
    ELSE NotBuilt("TypeError")

\* SqlAlchemyAndSpecification.is_satisfied_by, had it joined the children with or_.
AndIsSatisfiedBy_Or(cs) ==
    IF FirstError(cs) # "none" THEN NotBuilt(FirstError(cs))
    ELSE Built(or_([i \in DOMAIN cs |-> cs[i].val]))

\* SqlAlchemyAndSpecification.is_satisfied_by on its children's outcomes, which
\* a list comprehension collected in order: and_ of the children's conditions.
AndIsSatisfiedBy(cs) ==
    IF FirstError(cs) # "none" THEN NotBuilt(FirstError(cs))
    ELSE Built(and_([i \in DOMAIN cs |-> cs[i].val]))

\* SqlAlchemyOrSpecification.is_satisfied_by: or_ of the children's conditions.
OrIsSatisfiedBy(cs) ==
    IF FirstError(cs) # "none" THEN NotBuilt(FirstError(cs))
    ELSE Built(or_([i \in DOMAIN cs |-> cs[i].val]))

\* SqlAlchemyNotSpecification.is_satisfied_by, had it dropped the negation.
NotIsSatisfiedBy_Dropped(c) ==
    IF c.err # "none" THEN NotBuilt(c.err) ELSE Built(c.val)

\* SqlAlchemyNotSpecification.is_satisfied_by: not_ of the child's condition.
NotIsSatisfiedBy(c) ==
    IF c.err # "none" THEN NotBuilt(c.err) ELSE Built(not_(c.val))

RECURSIVE is_satisfied_by(_)
\* is_satisfied_by of a converted tree: the And / Or nodes evaluate every
\* child in order, the Not node its one child, the leaf dispatches on operator.
is_satisfied_by(self) ==
    IF self.kind = "SaAnd"
    THEN AndIsSatisfiedBy([i \in DOMAIN self.specs |-> is_satisfied_by(self.specs[i])])
    ELSE IF self.kind = "SaOr"
    THEN OrIsSatisfiedBy([i \in DOMAIN self.specs |-> is_satisfied_by(self.specs[i])])
    ELSE IF self.kind = "SaNot"
    THEN NotIsSatisfiedBy(is_satisfied_by(self.specs[1]))
    ELSE AttributeIsSatisfiedBy(self)

\* ------------------------------------------------- the backend's evaluation
\* SQL's three-valued logic: "T", "F", "N" (unknown).
Not3(a) == CASE a = "T" -> "F" [] a = "F" -> "T" [] OTHER -> "N"
And3(as) ==
    IF \E i \in DOMAIN as : as[i] = "F" THEN "F"
    ELSE IF \E i \in DOMAIN as : as[i] = "N" THEN "N" ELSE "T"
Or3(as) ==
    IF \E i \in DOMAIN as : as[i] = "T" THEN "T"
    ELSE IF \E i \in DOMAIN as : as[i] = "N" THEN "N" ELSE "F"
Bool3(b) == IF b THEN "T" ELSE "F"

\* a < b on two non-null values of one type.
LessV(a, b) ==
    IF a.t = "int" /\ b.t = "int" THEN a.i < b.i
    ELSE IF a.t = "str" /\ b.t = "str" THEN StrLess(a.s, b.s)
    ELSE FALSE

\* x = v in SQL: unknown when either side is NULL.
Eq3(x, v) == IF IsNull(x) \/ IsNull(v) THEN "N" ELSE Bool3(x = v)

\* x IN (list): FALSE for the empty list, else the OR of the equalities.
In3(x, list) ==
    IF Len(list) = 0 THEN "F" ELSE Or3([i \in DOMAIN list |-> Eq3(x, list[i])])

\* The value of a column comparison on a row.
EvalComparison(e, row) ==
    LET x == ColumnValue(row, e.col)
        v == e.value
    IN  CASE e.sqlop = "IS" -> Bool3(IsNull(x))
          [] e.sqlop = "IS NOT" -> Bool3(~IsNull(x))
          [] e.sqlop = "IN" -> In3(x, v.l)
          [] e.sqlop = "NOT IN" -> Not3(In3(x, v.l))
          [] OTHER ->
               IF IsNull(x) \/ IsNull(v) THEN "N"
               ELSE CASE e.sqlop = "=" -> Bool3(x = v)
                      [] e.sqlop = "!=" -> Bool3(x # v)
                      [] e.sqlop = ">" -> Bool3(LessV(v, x))
                      [] e.sqlop = "<" -> Bool3(LessV(x, v))
                      [] e.sqlop = ">=" -> Bool3(~LessV(x, v))
                      [] e.sqlop = "<=" -> Bool3(~LessV(v, x))
                      [] e.sqlop = "LIKE" -> Bool3(LikeMatch(x.s, v.s))
                      [] e.sqlop = "ILIKE" -> Bool3(LikeMatch(Lower(x.s), Lower(v.s)))

RECURSIVE Blank(_)
\* and_() and or_() of no clauses render as nothing, and so does a list all
\* of whose clauses render as nothing.
Blank(e) == e.kind \in {"and", "or"} /\ \A i \in DOMAIN e.args : Blank(e.args[i])

RECURSIVE EvalCondition(_, _)
\* The value of a condition on a row. A list joins the clauses that render
\* as something; a condition that renders as nothing restricts nothing.
EvalCondition(e, row) ==
    LET live == SelectSeq(e.args, LAMBDA a : ~Blank(a))
        values == [i \in DOMAIN live |-> EvalCondition(live[i], row)]
    IN  CASE e.kind = "true" -> "T"
          [] e.kind = "cmp" -> EvalComparison(e, row)
          [] e.kind = "not" -> Not3(EvalCondition(e.args[1], row))
          [] Blank(e) -> "T"
          [] e.kind = "and" -> And3(values)
          [] e.kind = "or" -> Or3(values)

\* ------------------------------------------------- rows, models, forms
\* The database item _create_db_item builds from a create form (its primary
\* key is not assigned yet).
CreateDbItem(form) ==
    [id |-> 0, username |-> form.username, text |-> form.text, author_id |-> form.author_id]

\* _update_db_item, had it assigned the username only.
UpdateDbItem_UsernameOnly(db_item, form) ==
    [db_item EXCEPT !.username = IF IsNull(form.username) THEN @ ELSE form.username]

\* _update_db_item: username is assigned when the form gives one, text always.
UpdateDbItem(db_item, form) ==
    [db_item EXCEPT !.username = IF IsNull(form.username) THEN @ ELSE form.username,
                    !.text = form.text]

\* _convert_db_item_to_model: the business model built from a database item.
ConvertDbItemToModel(db_item) ==
    [id |-> db_item.id, author_id |-> db_item.author_id,
     username |-> db_item.username, text |-> db_item.text]

\* A form placeholder for outcomes that carry no form.
NoForm == [username |-> NULL, text |-> NULL, author_id |-> NULL]

\* ------------------------------------------------- outcomes of a public call
ReturnModel(m) ==
    [err |-> "none", items |-> <<m>>, n |-> 0, b |-> FALSE,
     action |-> "", form |-> NoForm, item_id |-> 0, orig |-> ""]
ReturnList(ms) ==
    [err |-> "none", items |-> ms, n |-> 0, b |-> FALSE,
     action |-> "", form |-> NoForm, item_id |-> 0, orig |-> ""]
ReturnInt(k) ==
    [err |-> "none", items |-> <<>>, n |-> k, b |-> FALSE,
     action |-> "", form |-> NoForm, item_id |-> 0, orig |-> ""]
ReturnBool(v) ==
    [err |-> "none", items |-> <<>>, n |-> 0, b |-> v,
     action |-> "", form |-> NoForm, item_id |-> 0, orig |-> ""]
\* An error that carries nothing but its kind (ValueError, TypeError, ...).
RaiseError(kind) ==
    [err |-> kind, items |-> <<>>, n |-> 0, b |-> FALSE,
     action |-> "", form |-> NoForm, item_id |-> 0, orig |-> ""]
ItemNotFoundException(item_id) ==
    [err |-> "ItemNotFound", items |-> <<>>, n |-> 0, b |-> FALSE,
     action |-> "", form |-> NoForm, item_id |-> item_id, orig |-> ""]
UniqueViolationException(action, form) ==
    [err |-> "UniqueViolation", items |-> <<>>, n |-> 0, b |-> FALSE,
     action |-> action, form |-> form, item_id |-> 0, orig |-> ""]
RelationViolationException(action, form) ==
    [err |-> "RelationViolation", items |-> <<>>, n |-> 0, b |-> FALSE,
     action |-> action, form |-> form, item_id |-> 0, orig |-> ""]
\* The backend's IntegrityError, with the text of its cause (e.orig).
IntegrityError(orig) ==
    [err |-> "IntegrityError", items |-> <<>>, n |-> 0, b |-> FALSE,
     action |-> "", form |-> NoForm, item_id |-> 0, orig |-> orig]

\* ------------------------------------------------- the backend's constraints
\* The rows of the referenced table (user.id) that exist.
Authors == {1}

\* The backends whose error texts are modelled; "postgres_named" is a
\* PostgreSQL schema whose foreign key constraint carries "unique" in its name.
Dialects == {"sqlite", "postgres", "mysql", "postgres_named"}

\* str(e.orig) of the IntegrityError a backend raises for a constraint kind.
IntegrityText(dialect, constraint) ==
    CASE constraint = "unique" ->
           (CASE dialect = "sqlite" -> "UNIQUE constraint failed: user.username"
              [] dialect = "mysql" -> "Duplicate entry for key 'user.username'"
              [] OTHER -> "duplicate key value violates unique constraint")
      [] constraint = "foreign" ->
           (CASE dialect = "sqlite" -> "FOREIGN KEY constraint failed"
              [] dialect = "mysql" -> "a foreign key constraint fails (REFERENCES user)"
              [] dialect = "postgres" -> "violates foreign key constraint news_author_id_fkey"
              [] OTHER -> "violates foreign key constraint news_unique_author_fkey")
      [] OTHER ->
           (CASE dialect = "sqlite" -> "NOT NULL constraint failed: user.username"
              [] dialect = "mysql" -> "Column 'username' cannot be null"
              [] OTHER -> "null value in column username violates not-null constraint")

\* The primary key the backend assigns to the next inserted row.
NextId(tbl) ==
    IF tbl = {} THEN 1
    ELSE (CHOOSE k \in {r.id : r \in tbl} : \A r \in tbl : r.id <= k) + 1

\* The constraint a row violates in a table that holds `others` beside it:
\* NOT NULL, then UNIQUE, then FOREIGN KEY; "none" when it violates nothing.
Violation(item, others) ==
    IF IsNull(item.username) THEN "notnull"
    ELSE IF \E r \in others : r.username = item.username THEN "unique"
    ELSE IF ~IsNull(item.author_id) /\ item.author_id.i \notin Authors THEN "foreign"
    ELSE "none"

\* Every text IntegrityText yields.
BackendTexts ==
    {IntegrityText(d, c) : d \in Dialects, c \in {"unique", "foreign", "notnull"}}
\* (computed once per text) the markers found in the lower-cased text.
Markers == {"unique", "duplicate", "foreign", "reference"}
MarkersIn == [orig \in BackendTexts |-> {m \in Markers : Contains(Lower(orig), m)}]

\* The markers found in the text as the backend wrote it.
MarkersInRaw == [orig \in BackendTexts |-> {m \in Markers : Contains(orig, m)}]

\* ------------------------------------------------- _check_violations
\* _check_violations, had it searched the text without lower-casing it.
CheckViolations_CaseSensitive(orig, form, action) ==
    LET in_error_msg == MarkersInRaw[orig]
    IN  IF "unique" \in in_error_msg \/ "duplicate" \in in_error_msg
        THEN UniqueViolationException(action, form)
        ELSE IF "foreign" \in in_error_msg \/ "reference" \in in_error_msg
        THEN RelationViolationException(action, form)
        ELSE IntegrityError(orig)

\* _check_violations, had it looked for the relation markers first.
CheckViolations_ForeignFirst(orig, form, action) ==
    LET in_error_msg == MarkersIn[orig]
    IN  IF "foreign" \in in_error_msg \/ "reference" \in in_error_msg
        THEN RelationViolationException(action, form)
        ELSE IF "unique" \in in_error_msg \/ "duplicate" \in in_error_msg
        THEN UniqueViolationException(action, form)
        ELSE IntegrityError(orig)

\* The error _check_violations raises for the IntegrityError with text orig.
CheckViolations(orig, form, action) ==
    LET in_error_msg == MarkersIn[orig]
    IN  IF "unique" \in in_error_msg \/ "duplicate" \in in_error_msg
        THEN UniqueViolationException(action, form)
        ELSE IF "foreign" \in in_error_msg \/ "reference" \in in_error_msg
        THEN RelationViolationException(action, form)
        ELSE IntegrityError(orig)

\* AsyncSqlAlchemyCrudRepository._check_violations
AsyncCheckViolations(orig, form, action) ==
    LET in_error_msg == MarkersIn[orig]
    IN  IF "unique" \in in_error_msg \/ "duplicate" \in in_error_msg
        THEN UniqueViolationException(action, form)
        ELSE IF "foreign" \in in_error_msg \/ "reference" \in in_error_msg
        THEN RelationViolationException(action, form)
        ELSE IntegrityError(orig)

\* ------------------------------------------------- queries
\* A query (Query / Select): its WHERE conditions, its ORDER BY expressions,
\* and its LIMIT and OFFSET, each absent (<<>>) or one number.
NewQuery == [conds |-> <<>>, order |-> <<>>, limit |-> <<>>, offset |-> <<>>]
QueryFilter(query, cond) == [query EXCEPT !.conds = Append(@, cond)]
QueryOrderBy(query, exprs) == [query EXCEPT !.order = @ \o exprs]
QueryLimit(query, k) == [query EXCEPT !.limit = <<k>>]
QueryOffset(query, k) == [query EXCEPT !.offset = <<k>>]

\* The rows of tbl a query selects: those on which every condition is TRUE.
Selected(query, tbl) ==
    {r \in tbl : \A i \in DOMAIN query.conds : EvalCondition(query.conds[i], r) = "T"}

\* An ORDER BY expression: column, direction and null placement ("DEFAULT"
\* when the expression states none: NULL then sorts as the smallest value).
OrderExpr(col, dir, nulls) == [col |-> col, dir |-> dir, nulls |-> nulls]

\* -1, 0, 1: row a sorts before, with, after row b under one ORDER BY expression.
CompareBy(e, a, b) ==
    LET x == ColumnValue(a, e.col)
        y == ColumnValue(b, e.col)
        first == \/ e.nulls = "FIRST"
                 \/ (e.nulls = "DEFAULT" /\ e.dir = "ASC")
    IN  IF IsNull(x) /\ IsNull(y) THEN 0
        ELSE IF IsNull(x) THEN (IF first THEN 0 - 1 ELSE 1)
        ELSE IF IsNull(y) THEN (IF first THEN 1 ELSE 0 - 1)
        ELSE IF x = y THEN 0
        ELSE IF e.dir = "ASC" THEN (IF LessV(x, y) THEN 0 - 1 ELSE 1)
        ELSE (IF LessV(y, x) THEN 0 - 1 ELSE 1)

RECURSIVE SortsBefore(_, _, _, _)
\* Row a comes before row b under the ORDER BY list; rows the list does not
\* separate come in the backend's own order, tie (a ranking of the keys).
SortsBefore(order, a, b, tie) ==
    IF Len(order) = 0 THEN tie[a.id] < tie[b.id]
    ELSE LET c == CompareBy(Head(order), a, b)
         IN  IF c # 0 THEN c < 0 ELSE SortsBefore(Tail(order), a, b, tie)

\* The rows of a set as the sequence the ORDER BY list puts them in.
Sorted(rows, order, tie) ==
    [i \in 1..Cardinality(rows) |->
        CHOOSE r \in rows :
            Cardinality({q \in rows : SortsBefore(order, q, r, tie)}) = i - 1]

\* LIMIT / OFFSET on a sequence of rows.
Paged(rows, limit, offset) ==
    LET k == IF Len(offset) = 0 THEN 0 ELSE offset[1]
        rest == IF k >= Len(rows) THEN <<>> ELSE SubSeq(rows, k + 1, Len(rows))
    IN  IF Len(limit) = 0 \/ limit[1] >= Len(rest) THEN rest
        ELSE SubSeq(rest, 1, limit[1])

\* query.all(): the selected rows, ordered, paged.
QueryAll(query, tbl, tie) ==
    Paged(Sorted(Selected(query, tbl), query.order, tie), query.limit, query.offset)

\* query.count()
QueryCount(query, tbl) == Len(QueryAll(query, tbl, [k \in {r.id : r \in tbl} |-> k]))

\* query.one() / scalar_one(): the one selected row, or NoResultFound /
\* MultipleResultsFound.
QueryOne(query, tbl) ==
    LET rows == Selected(query, tbl)
    IN  IF rows = {} THEN [err |-> "NoResultFound", rows |-> {}]
        ELSE IF Cardinality(rows) > 1 THEN [err |-> "MultipleResultsFound", rows |-> {}]
        ELSE [err |-> "none", rows |-> rows]

\* A step that builds a query: the query, or the error raised.
QueryBuilt(q) == [err |-> "none", val |-> q]
QueryNotBuilt(kind) == [err |-> kind, val |-> NewQuery]

\* ------------------------------------------------- order options
\* abstractrepo's OrderOption
OrderOption(attribute, direction, nones) ==
    [attribute |-> attribute, direction |-> direction, nones |-> nones]

\* _get_expression, had it left the null placement to the backend.
GetExpression_BackendNulls(item) ==
    OrderExpr(item.attribute,
              IF item.direction = "ASC" THEN "ASC" ELSE "DESC",
              "DEFAULT")

\* SqlAlchemyOrderOptions._get_expression
GetExpression(item) ==
    OrderExpr(item.attribute,
              IF item.direction = "ASC" THEN "ASC" ELSE "DESC",
              IF item.nones = "FIRST" THEN "FIRST" ELSE "LAST")

\* SqlAlchemyOrderOptionsConverter.convert and SqlAlchemyOrderOptions.to_expression:
\* one ORDER BY expression per option, in order; AttributeError when an
\* option names no column.
ToExpression(options) ==
    IF \E i \in DOMAIN options : options[i].attribute \notin Columns
    THEN [err |-> "AttributeError", val |-> <<>>]
    ELSE [err |-> "none", val |-> [i \in DOMAIN options |-> GetExpression(options[i])]]

\* ------------------------------------------------- state
VARIABLES
    hooks,      \* the concrete repository's default filter and default order
    sdb,        \* the rows stored behind the blocking repository
    adb,        \* the rows stored behind the suspending repository
    call,       \* the last public call: operation and arguments
    sres,       \* its outcome in the blocking repository
    ares,       \* its outcome in the suspending repository
    sprev,      \* sdb as it was before the last call
    aprev,      \* adb as it was before the last call
    raised,     \* text of the IntegrityError the backend raised in the last call ("" when none)
    created,    \* models returned by create whose record was not updated or deleted since
    slog,       \* what the last call did with its session, in order, in the blocking repository
    alog,       \* the same in the suspending repository
    tasks       \* an update and a delete of one record running concurrently

vars == <<hooks, sdb, adb, call, sres, ares, sprev, aprev, raised, created, slog, alog,
          tasks>>

\* ------------------------------------------------- subclass hooks
\* _apply_default_filter: the identity when the hook's condition is TRUE.
ApplyDefaultFilter(query) ==
    IF hooks.filter = TrueCondition THEN query ELSE QueryFilter(query, hooks.filter)

\* _apply_default_order
ApplyDefaultOrder(query) == QueryOrderBy(query, hooks.order)

\* _apply_id_filter_condition: the primary key equals item_id.
ApplyIdFilterCondition(query, item_id) ==
    QueryFilter(query, Comparison("id", "=", IntV(item_id)))

\* ------------------------------------------------- blocking repository: query building
\* filter_spec, order_options and paging_options are optional: <<>> is None,
\* <<x>> is the argument x.

\* SqlAlchemyCrudRepository._apply_filter
ApplyFilter(query, filter_spec) ==
    LET q == ApplyDefaultFilter(query)
    IN  IF Len(filter_spec) = 0 THEN QueryBuilt(q)
        ELSE LET c == convert(filter_spec[1])
             IN  IF c.err # "none" THEN QueryNotBuilt(c.err)
                 ELSE LET condition == is_satisfied_by(c.val)
                      IN  IF condition.err # "none" THEN QueryNotBuilt(condition.err)
                          ELSE QueryBuilt(QueryFilter(q, condition.val))

\* _apply_order, had it added the default order after the caller's.
ApplyOrder_DefaultToo(query, order_options) ==
    IF Len(order_options) = 0 THEN QueryBuilt(ApplyDefaultOrder(query))
    ELSE LET e == ToExpression(order_options[1])
         IN  IF e.err # "none" THEN QueryNotBuilt(e.err)
             ELSE QueryBuilt(ApplyDefaultOrder(QueryOrderBy(query, e.val)))

\* SqlAlchemyCrudRepository._apply_order
ApplyOrder(query, order_options) ==
    IF Len(order_options) = 0 THEN QueryBuilt(ApplyDefaultOrder(query))
    ELSE LET e == ToExpression(order_options[1])
         IN  IF e.err # "none" THEN QueryNotBuilt(e.err)
             ELSE QueryBuilt(QueryOrderBy(query, e.val))

\* _apply_paging, had it applied the offset only together with a limit.
ApplyPaging_OffsetUnderLimit(query, paging_options) ==
    IF Len(paging_options) = 0 THEN query
    ELSE IF Len(paging_options[1].limit) # 0
         THEN LET q == QueryLimit(query, paging_options[1].limit[1])
              IN  IF Len(paging_options[1].offset) # 0
                  THEN QueryOffset(q, paging_options[1].offset[1]) ELSE q
         ELSE query

\* _apply_paging, had it dropped the offset.
ApplyPaging_LimitOnly(query, paging_options) ==
    IF Len(paging_options) = 0 THEN query
    ELSE IF Len(paging_options[1].limit) # 0
         THEN QueryLimit(query, paging_options[1].limit[1]) ELSE query

\* SqlAlchemyCrudRepository._apply_paging
ApplyPaging(query, paging_options) ==
    IF Len(paging_options) = 0 THEN query
    ELSE LET q == IF Len(paging_options[1].limit) # 0
                  THEN QueryLimit(query, paging_options[1].limit[1]) ELSE query
         IN  IF Len(paging_options[1].offset) # 0
             THEN QueryOffset(q, paging_options[1].offset[1]) ELSE q

\* ------------------------------------------------- suspending repository: query building
\* AsyncSqlAlchemyCrudRepository._apply_filter
AsyncApplyFilter(stmt, filter_spec) ==
    IF Len(filter_spec) = 0 THEN QueryBuilt(ApplyDefaultFilter(stmt))
    ELSE LET c == convert(filter_spec[1])
         IN  IF c.err # "none" THEN QueryNotBuilt(c.err)
             ELSE LET condition == is_satisfied_by(c.val)
                  IN  IF condition.err # "none" THEN QueryNotBuilt(condition.err)
                      ELSE QueryBuilt(QueryFilter(stmt, condition.val))

\* AsyncSqlAlchemyCrudRepository._apply_order
AsyncApplyOrder(stmt, order_options) ==
    IF Len(order_options) = 0 THEN QueryBuilt(ApplyDefaultOrder(stmt))
    ELSE LET e == ToExpression(order_options[1])
         IN  IF e.err # "none" THEN QueryNotBuilt(e.err)
             ELSE QueryBuilt(QueryOrderBy(stmt, e.val))

\* AsyncSqlAlchemyCrudRepository._apply_paging
AsyncApplyPaging(stmt, paging_options) ==
    IF Len(paging_options) = 0 THEN stmt
    ELSE LET q == IF Len(paging_options[1].limit) # 0
                  THEN QueryLimit(stmt, paging_options[1].limit[1]) ELSE stmt
         IN  IF Len(paging_options[1].offset) # 0
             THEN QueryOffset(q, paging_options[1].offset[1]) ELSE q

\* The models of a sequence of database items.
Models(db_items) == [i \in DOMAIN db_items |-> ConvertDbItemToModel(db_items[i])]

\* ------------------------------------------------- blocking repository: reads
\* SqlAlchemyCrudRepository.get_collection
GetCollection(tbl, filter_spec, order_options, paging_options, tie) ==
    LET f == ApplyFilter(NewQuery, filter_spec)
    IN  IF f.err # "none" THEN RaiseError(f.err)
        ELSE LET o == ApplyOrder(f.val, order_options)
             IN  IF o.err # "none" THEN RaiseError(o.err)
                 ELSE ReturnList(Models(QueryAll(ApplyPaging(o.val, paging_options), tbl, tie)))

\* count, had it counted under the default filter alone.
Count_DefaultFilterOnly(tbl, filter_spec) ==
    LET f == ApplyFilter(NewQuery, filter_spec)
    IN  IF f.err # "none" THEN RaiseError(f.err)
        ELSE ReturnInt(QueryCount(ApplyDefaultFilter(NewQuery), tbl))

\* SqlAlchemyCrudRepository.count
Count(tbl, filter_spec) ==
    LET f == ApplyFilter(NewQuery, filter_spec)
    IN  IF f.err # "none" THEN RaiseError(f.err)
        ELSE ReturnInt(QueryCount(f.val, tbl))

\* SqlAlchemyCrudRepository.get_item
GetItem(tbl, item_id) ==
    LET found == QueryOne(ApplyIdFilterCondition(NewQuery, item_id), tbl)
    IN  IF found.err = "NoResultFound" THEN ItemNotFoundException(item_id)
        ELSE IF found.err # "none" THEN RaiseError(found.err)
        ELSE ReturnModel(ConvertDbItemToModel(CHOOSE r \in found.rows : TRUE))

\* exists, had it compared the count with >= 0.
Exists_AtLeastZero(tbl, item_id) ==
    ReturnBool(QueryCount(ApplyIdFilterCondition(NewQuery, item_id), tbl) >= 0)

\* SqlAlchemyCrudRepository.exists
Exists(tbl, item_id) ==
    ReturnBool(QueryCount(ApplyIdFilterCondition(NewQuery, item_id), tbl) > 0)

\* ------------------------------------------------- suspending repository: reads
\* AsyncSqlAlchemyCrudRepository.get_collection
AsyncGetCollection(tbl, filter_spec, order_options, paging_options, tie) ==
    LET f == AsyncApplyFilter(NewQuery, filter_spec)
    IN  IF f.err # "none" THEN RaiseError(f.err)
        ELSE LET o == AsyncApplyOrder(f.val, order_options)
             IN  IF o.err # "none" THEN RaiseError(o.err)
                 ELSE ReturnList(Models(QueryAll(AsyncApplyPaging(o.val, paging_options), tbl, tie)))

\* AsyncSqlAlchemyCrudRepository.count: the length of the fetched list.
AsyncCount(tbl, filter_spec) ==
    LET f == AsyncApplyFilter(NewQuery, filter_spec)
    IN  IF f.err # "none" THEN RaiseError(f.err)
        ELSE ReturnInt(Len(QueryAll(f.val, tbl, [k \in {r.id : r \in tbl} |-> k])))

\* AsyncSqlAlchemyCrudRepository.get_item
AsyncGetItem(tbl, item_id) ==
    LET found == QueryOne(ApplyIdFilterCondition(NewQuery, item_id), tbl)
    IN  IF found.err = "NoResultFound" THEN ItemNotFoundException(item_id)
        ELSE IF found.err # "none" THEN RaiseError(found.err)
        ELSE ReturnModel(ConvertDbItemToModel(CHOOSE r \in found.rows : TRUE))

\* AsyncSqlAlchemyCrudRepository.exists: scalar_one_or_none() is not None.
AsyncExists(tbl, item_id) ==
    LET rows == Selected(ApplyIdFilterCondition(NewQuery, item_id), tbl)
    IN  IF Cardinality(rows) > 1 THEN RaiseError("MultipleResultsFound")
        ELSE ReturnBool(rows # {})

\* ------------------------------------------------- blocking repository: mutations
\* Each yields the table after the call and the call's outcome.

\* create, had it not refreshed the item after the commit: the returned model
\* lacks the assigned primary key.
Create_NoRefresh(tbl, form, dialect) ==
    LET db_item == CreateDbItem(form)
        violated == Violation(db_item, tbl)
        stored == [db_item EXCEPT !.id = NextId(tbl)]
    IN  IF violated # "none"
        THEN [db |-> tbl, orig |-> IntegrityText(dialect, violated),
              res |-> CheckViolations(IntegrityText(dialect, violated), form, "create")]
        ELSE [db |-> tbl \cup {stored}, orig |-> "",
              res |-> ReturnModel(ConvertDbItemToModel(db_item))]

\* create, had it not committed: the model is returned, nothing is stored.
Create_NoCommit(tbl, form, dialect) ==
    LET db_item == CreateDbItem(form)
        violated == Violation(db_item, tbl)
        stored == [db_item EXCEPT !.id = NextId(tbl)]
    IN  IF violated # "none"
        THEN [db |-> tbl, orig |-> IntegrityText(dialect, violated),
              res |-> CheckViolations(IntegrityText(dialect, violated), form, "create")]
        ELSE [db |-> tbl, orig |-> "",
              res |-> ReturnModel(ConvertDbItemToModel(stored))]

\* SqlAlchemyCrudRepository.create: the INSERT is flushed by commit; an
\* IntegrityError is rolled back and classified, else refresh loads the
\* assigned primary key.
Create(tbl, form, dialect) ==
    LET db_item == CreateDbItem(form)
        violated == Violation(db_item, tbl)
        stored == [db_item EXCEPT !.id = NextId(tbl)]
    IN  IF violated # "none"
        THEN [db |-> tbl, orig |-> IntegrityText(dialect, violated),
              res |-> CheckViolations(IntegrityText(dialect, violated), form, "create")]
        ELSE [db |-> tbl \cup {stored}, orig |-> "",
              res |-> ReturnModel(ConvertDbItemToModel(stored))]

\* SqlAlchemyCrudRepository.update
Update(tbl, item_id, form, dialect) ==
    LET found == QueryOne(ApplyIdFilterCondition(NewQuery, item_id), tbl)
    IN  IF found.err = "NoResultFound"
        THEN [db |-> tbl, orig |-> "", res |-> ItemNotFoundException(item_id)]
        ELSE IF found.err # "none" THEN [db |-> tbl, orig |-> "", res |-> RaiseError(found.err)]
        ELSE LET old == CHOOSE r \in found.rows : TRUE
                 db_item == UpdateDbItem(old, form)
                 violated == Violation(db_item, tbl \ {old})
             IN  IF violated # "none"
                 THEN [db |-> tbl, orig |-> IntegrityText(dialect, violated),
                       res |-> CheckViolations(IntegrityText(dialect, violated), form, "update")]
                 ELSE [db |-> (tbl \ {old}) \cup {db_item}, orig |-> "",
                       res |-> ReturnModel(ConvertDbItemToModel(db_item))]

\* delete, had it not committed: the record is returned and stays stored.
Delete_NoCommit(tbl, item_id) ==
    LET found == QueryOne(ApplyIdFilterCondition(NewQuery, item_id), tbl)
    IN  IF found.err = "NoResultFound"
        THEN [db |-> tbl, orig |-> "", res |-> ItemNotFoundException(item_id)]
        ELSE IF found.err # "none" THEN [db |-> tbl, orig |-> "", res |-> RaiseError(found.err)]
        ELSE LET db_item == CHOOSE r \in found.rows : TRUE
             IN  [db |-> tbl, orig |-> "",
                  res |-> ReturnModel(ConvertDbItemToModel(db_item))]

\* SqlAlchemyCrudRepository.delete
Delete(tbl, item_id) ==
    LET found == QueryOne(ApplyIdFilterCondition(NewQuery, item_id), tbl)
    IN  IF found.err = "NoResultFound"
        THEN [db |-> tbl, orig |-> "", res |-> ItemNotFoundException(item_id)]
        ELSE IF found.err # "none" THEN [db |-> tbl, orig |-> "", res |-> RaiseError(found.err)]
        ELSE LET db_item == CHOOSE r \in found.rows : TRUE
             IN  [db |-> tbl \ {db_item}, orig |-> "",
                  res |-> ReturnModel(ConvertDbItemToModel(db_item))]

\* ------------------------------------------------- suspending repository: mutations
\* AsyncSqlAlchemyCrudRepository.create
AsyncCreate(tbl, form, dialect) ==
    LET db_item == CreateDbItem(form)
        violated == Violation(db_item, tbl)
        stored == [db_item EXCEPT !.id = NextId(tbl)]
    IN  IF violated # "none"
        THEN [db |-> tbl, orig |-> IntegrityText(dialect, violated),
              res |-> AsyncCheckViolations(IntegrityText(dialect, violated), form, "create")]
        ELSE [db |-> tbl \cup {stored}, orig |-> "",
              res |-> ReturnModel(ConvertDbItemToModel(stored))]

\* AsyncSqlAlchemyCrudRepository.update
AsyncUpdate(tbl, item_id, form, dialect) ==
    LET found == QueryOne(ApplyIdFilterCondition(NewQuery, item_id), tbl)
    IN  IF found.err = "NoResultFound"
        THEN [db |-> tbl, orig |-> "", res |-> ItemNotFoundException(item_id)]
        ELSE IF found.err # "none" THEN [db |-> tbl, orig |-> "", res |-> RaiseError(found.err)]
        ELSE LET old == CHOOSE r \in found.rows : TRUE
                 db_item == UpdateDbItem(old, form)
                 violated == Violation(db_item, tbl \ {old})
             IN  IF violated # "none"
                 THEN [db |-> tbl, orig |-> IntegrityText(dialect, violated),
                       res |-> AsyncCheckViolations(IntegrityText(dialect, violated), form, "update")]
                 ELSE [db |-> (tbl \ {old}) \cup {db_item}, orig |-> "",
                       res |-> ReturnModel(ConvertDbItemToModel(db_item))]

\* AsyncSqlAlchemyCrudRepository.delete
AsyncDelete(tbl, item_id) ==
    LET found == QueryOne(ApplyIdFilterCondition(NewQuery, item_id), tbl)
    IN  IF found.err = "NoResultFound"
        THEN [db |-> tbl, orig |-> "", res |-> ItemNotFoundException(item_id)]
        ELSE IF found.err # "none" THEN [db |-> tbl, orig |-> "", res |-> RaiseError(found.err)]
        ELSE LET db_item == CHOOSE r \in found.rows : TRUE
             IN  [db |-> tbl \ {db_item}, orig |-> "",
                  res |-> ReturnModel(ConvertDbItemToModel(db_item))]

\* ------------------------------------------------- sessions
\* The methods' session calls, had get_item committed on its not-found path
\* instead of rolling back.
MethodCalls_GetItemCommits(op, res) ==
    CASE op = "create" ->
            IF res.err = "none" THEN <<"add", "commit", "refresh">>
            ELSE <<"add", "commit", "rollback">>
      [] op = "update" ->
            IF res.err = "none" THEN <<"execute", "commit", "refresh">>
            ELSE IF res.err = "ItemNotFound" THEN <<"execute", "rollback">>
            ELSE IF res.err = "MultipleResultsFound" THEN <<"execute">>
            ELSE <<"execute", "commit", "rollback">>
      [] op = "delete" ->
            IF res.err = "none" THEN <<"execute", "delete", "commit">>
            ELSE IF res.err = "ItemNotFound" THEN <<"execute", "rollback">>
            ELSE <<"execute">>
      [] op = "get_item" ->
            IF res.err = "ItemNotFound" THEN <<"execute", "commit">> ELSE <<"execute">>
      [] op = "exists" -> <<"execute">>
      [] op \in {"get_collection", "count"} ->
            IF res.err = "none" THEN <<"execute">> ELSE <<>>

\* The methods' session calls, had get_collection and count run the query
\* before the filter was translated.
MethodCalls_ExecuteFirst(op, res) ==
    CASE op = "create" ->
            IF res.err = "none" THEN <<"add", "commit", "refresh">>
            ELSE <<"add", "commit", "rollback">>
      [] op = "update" ->
            IF res.err = "none" THEN <<"execute", "commit", "refresh">>
            ELSE IF res.err = "ItemNotFound" THEN <<"execute", "rollback">>
            ELSE IF res.err = "MultipleResultsFound" THEN <<"execute">>
            ELSE <<"execute", "commit", "rollback">>
      [] op = "delete" ->
            IF res.err = "none" THEN <<"execute", "delete", "commit">>
            ELSE IF res.err = "ItemNotFound" THEN <<"execute", "rollback">>
            ELSE <<"execute">>
      [] op = "get_item" ->
            IF res.err = "ItemNotFound" THEN <<"execute", "rollback">> ELSE <<"execute">>
      [] op = "exists" -> <<"execute">>
      [] op \in {"get_collection", "count"} ->
            <<"execute">>

\* What a public method does with the session it is given, in order, on the
\* path that ended in res: "execute" is a SELECT round-trip (one(), count(),
\* all(), execute), the others are the session's methods of that name. The
\* two repositories make the same calls.
MethodCalls(op, res) ==
    CASE op = "create" ->
            IF res.err = "none" THEN <<"add", "commit", "refresh">>
            ELSE <<"add", "commit", "rollback">>
      [] op = "update" ->
            IF res.err = "none" THEN <<"execute", "commit", "refresh">>
            ELSE IF res.err = "ItemNotFound" THEN <<"execute", "rollback">>
            ELSE IF res.err = "MultipleResultsFound" THEN <<"execute">>
            ELSE <<"execute", "commit", "rollback">>
      [] op = "delete" ->
            IF res.err = "none" THEN <<"execute", "delete", "commit">>
            ELSE IF res.err = "ItemNotFound" THEN <<"execute", "rollback">>
            ELSE <<"execute">>
      [] op = "get_item" ->
            IF res.err = "ItemNotFound" THEN <<"execute", "rollback">> ELSE <<"execute">>
      [] op = "exists" -> <<"execute">>
      [] op \in {"get_collection", "count"} ->
            IF res.err = "none" THEN <<"execute">> ELSE <<>>

\* The session scope, had it closed the session only after a commit (no finally).
DatabaseSession_NoFinally(calls, failed) ==
    <<"session">> \o calls \o (IF failed THEN <<"rollback">>
                                ELSE <<"commit", "close", "remove">>)

\* The session scope, had it not rolled back when the method raised.
DatabaseSession_NoRollback(calls, failed) ==
    <<"session">> \o calls \o (IF failed THEN <<>> ELSE <<"commit">>)
        \o <<"close", "remove">>

\* Database.session / Database.async_session around a method that made the
\* given calls and returned (failed = FALSE) or raised an Exception: the
\* session is taken from the registry, committed after the method returned or
\* rolled back when it raised, and closed and removed from the registry
\* either way.
DatabaseSession(calls, failed) ==
    <<"session">> \o calls \o (IF failed THEN <<"rollback">> ELSE <<"commit">>)
        \o <<"close", "remove">>

\* A method whose session raises an error of the backend that is no
\* IntegrityError (an OperationalError) at its first call of the given kind:
\* the calls up to that one are made, the records are as the commits before
\* it left them, and the error leaves the method. ok is what the method does
\* when the backend does not fail.
Failing(tbl, ok, op, step) ==
    LET calls == MethodCalls(op, ok.res)
        k == CHOOSE i \in DOMAIN calls :
                calls[i] = step /\ \A j \in 1..(i - 1) : calls[j] # step
    IN  [db |-> IF \E j \in 1..(k - 1) : calls[j] = "commit" THEN ok.db ELSE tbl,
         res |-> RaiseError("OperationalError"),
         calls |-> SubSeq(calls, 1, k)]

\* ------------------------------------------------- inputs
\* The repository's hooks: no default filter or "records without an author
\* only"; default order by ascending or by descending primary key.
HookSets ==
    [filter : {TrueCondition, Comparison("author_id", "IS", NULL)},
     order : {<<OrderExpr("id", "ASC", "DEFAULT")>>, <<OrderExpr("id", "DESC", "DEFAULT")>>}]

\* Identifiers a caller asks for: every key the backend can assign, and one more.
ItemIds == 1..(MaxId + 1)

CreateForms ==
    [username : {StrV("ann"), StrV("Bob"), NULL},
     text : {NULL, StrV("a")},
     author_id : {NULL, IntV(1), IntV(7)}]

UpdateForms ==
    [username : {NULL, StrV("ann"), StrV("Bob")},
     text : {NULL, StrV("b")},
     author_id : {NULL}]

\* PagingOptions(limit, offset)
PagingOptions(limit, offset) == [limit |-> limit, offset |-> offset]

\* The backend's own row orders: the rankings of the primary keys.
Ties == {f \in [1..MaxId -> 1..MaxId] : \A i, j \in 1..MaxId : i # j => f[i] # f[j]}

\* The filters, orders and pagings of the calls made between mutations.
SomeFilters ==
    {<<>>,
     <<AttributeSpecification("id", IntV(2), "LTE")>>,
     <<AttributeSpecification("text", NULL, "E")>>,
     <<NotSpecification(AttributeSpecification("username", StrV("b%"), "ILIKE"))>>,
     <<AttributeSpecification("id", IntV(1), "IN")>>}
SomeOrders == {<<>>, << <<OrderOption("text", "DESC", "FIRST")>> >>}
SomePagings == {<<>>, <<PagingOptions(<<1>>, <<1>>)>>}

\* The record of a call.
Call(op, item_id, form, filter_spec, order_options, paging_options) ==
    [op |-> op, item_id |-> item_id, form |-> form, filter |-> filter_spec,
     order |-> order_options, paging |-> paging_options]

\* The outcome on record while no call has finished.
NoOutcome == RaiseError("idle")

\* No call is in progress: the caller is between two calls.
Idle == Call("idle", 0, NoForm, <<>>, <<>>, <<>>)

\* No concurrent calls are in progress. Of a concurrent update and delete of
\* one record, each in its own session: the identifier and the form, the
\* statement each is about to run, the database item each has loaded, and
\* each one's outcome.
NoTasks ==
    [item_id |-> 0, form |-> NoForm,
     upc |-> "off", uitem |-> {}, ures |-> NoOutcome,
     dpc |-> "off", ditem |-> {}, dres |-> NoOutcome]

\* ------------------------------------------------- the repository's operations
\* A call is made when the caller is idle; its outcome stays on record until
\* the caller takes it (Resume).
Init ==
    /\ hooks \in HookSets
    /\ sdb = {}
    /\ adb = {}
    /\ call = Idle
    /\ sres = NoOutcome
    /\ ares = NoOutcome
    /\ sprev = {}
    /\ aprev = {}
    /\ raised = ""
    /\ created = {}
    /\ slog = <<>>
    /\ alog = <<>>
    /\ tasks = NoTasks

\* The models `created` keeps after a call that returned `res` for item_id.
Forget(res, item_id) ==
    IF res.err = "none" THEN {m \in created : m.id # item_id} ELSE created

CallCreate(form, dialect) ==
    LET s == Create(sdb, form, dialect)
        a == AsyncCreate(adb, form, dialect)
    IN  /\ Cardinality(s.db) <= MaxId /\ \A r \in s.db \cup a.db : r.id <= MaxId
        /\ sdb' = s.db /\ adb' = a.db
        /\ sres' = s.res /\ ares' = a.res
        /\ call' = Call("create", 0, form, <<>>, <<>>, <<>>)
        /\ sprev' = sdb /\ aprev' = adb
        /\ raised' = s.orig
        /\ created' = created \cup (IF s.res.err = "none" THEN {s.res.items[1]} ELSE {})
                               \cup (IF a.res.err = "none" THEN {a.res.items[1]} ELSE {})
        /\ slog' = DatabaseSession(MethodCalls("create", s.res), s.res.err # "none")
        /\ alog' = DatabaseSession(MethodCalls("create", a.res), a.res.err # "none")
        /\ UNCHANGED <<hooks, tasks>>

CallUpdate(item_id, form, dialect) ==
    LET s == Update(sdb, item_id, form, dialect)
        a == AsyncUpdate(adb, item_id, form, dialect)
    IN  /\ sdb' = s.db /\ adb' = a.db
        /\ sres' = s.res /\ ares' = a.res
        /\ call' = Call("update", item_id, form, <<>>, <<>>, <<>>)
        /\ sprev' = sdb /\ aprev' = adb
        /\ raised' = s.orig
        /\ created' = Forget(s.res, item_id)
        /\ slog' = DatabaseSession(MethodCalls("update", s.res), s.res.err # "none")
        /\ alog' = DatabaseSession(MethodCalls("update", a.res), a.res.err # "none")
        /\ UNCHANGED <<hooks, tasks>>

CallDelete(item_id) ==
    LET s == Delete(sdb, item_id)
        a == AsyncDelete(adb, item_id)
    IN  /\ sdb' = s.db /\ adb' = a.db
        /\ sres' = s.res /\ ares' = a.res
        /\ call' = Call("delete", item_id, NoForm, <<>>, <<>>, <<>>)
        /\ sprev' = sdb /\ aprev' = adb
        /\ raised' = s.orig
        /\ created' = Forget(s.res, item_id)
        /\ slog' = DatabaseSession(MethodCalls("delete", s.res), s.res.err # "none")
        /\ alog' = DatabaseSession(MethodCalls("delete", a.res), a.res.err # "none")
        /\ UNCHANGED <<hooks, tasks>>

\* get_item, had it removed the record it read from the session's store.
CallGetItem_Removing(item_id) ==
    /\ sres' = GetItem(sdb, item_id) /\ ares' = AsyncGetItem(adb, item_id)
    /\ call' = Call("get_item", item_id, NoForm, <<>>, <<>>, <<>>)
    /\ sprev' = sdb /\ aprev' = adb
    /\ raised' = ""
    /\ slog' = DatabaseSession(MethodCalls("get_item", sres'), sres'.err # "none")
    /\ alog' = DatabaseSession(MethodCalls("get_item", ares'), ares'.err # "none")
    /\ sdb' = Delete(sdb, item_id).db /\ adb' = AsyncDelete(adb, item_id).db
    /\ UNCHANGED <<hooks, tasks, created>>

CallGetItem(item_id) ==
    /\ sres' = GetItem(sdb, item_id) /\ ares' = AsyncGetItem(adb, item_id)
    /\ call' = Call("get_item", item_id, NoForm, <<>>, <<>>, <<>>)
    /\ sprev' = sdb /\ aprev' = adb
    /\ raised' = ""
    /\ slog' = DatabaseSession(MethodCalls("get_item", sres'), sres'.err # "none")
    /\ alog' = DatabaseSession(MethodCalls("get_item", ares'), ares'.err # "none")
    /\ UNCHANGED <<hooks, tasks, sdb, adb, created>>

CallExists(item_id) ==
    /\ sres' = Exists(sdb, item_id) /\ ares' = AsyncExists(adb, item_id)
    /\ call' = Call("exists", item_id, NoForm, <<>>, <<>>, <<>>)
    /\ sprev' = sdb /\ aprev' = adb
    /\ raised' = ""
    /\ slog' = DatabaseSession(MethodCalls("exists", sres'), sres'.err # "none")
    /\ alog' = DatabaseSession(MethodCalls("exists", ares'), ares'.err # "none")
    /\ UNCHANGED <<hooks, tasks, sdb, adb, created>>

CallGetCollection(filter_spec, order_options, paging_options, tie) ==
    /\ sres' = GetCollection(sdb, filter_spec, order_options, paging_options, tie)
    /\ ares' = AsyncGetCollection(adb, filter_spec, order_options, paging_options, tie)
    /\ call' = Call("get_collection", 0, NoForm, filter_spec, order_options, paging_options)
    /\ sprev' = sdb /\ aprev' = adb
    /\ raised' = ""
    /\ slog' = DatabaseSession(MethodCalls("get_collection", sres'), sres'.err # "none")
    /\ alog' = DatabaseSession(MethodCalls("get_collection", ares'), ares'.err # "none")
    /\ UNCHANGED <<hooks, tasks, sdb, adb, created>>

CallCount(filter_spec) ==
    /\ sres' = Count(sdb, filter_spec) /\ ares' = AsyncCount(adb, filter_spec)
    /\ call' = Call("count", 0, NoForm, filter_spec, <<>>, <<>>)
    /\ sprev' = sdb /\ aprev' = adb
    /\ raised' = ""
    /\ slog' = DatabaseSession(MethodCalls("count", sres'), sres'.err # "none")
    /\ alog' = DatabaseSession(MethodCalls("count", ares'), ares'.err # "none")
    /\ UNCHANGED <<hooks, tasks, sdb, adb, created>>

\* The caller takes the outcome of the finished call.
Resume ==
    /\ call # Idle
    /\ call' = Idle
    /\ sres' = NoOutcome /\ ares' = NoOutcome
    /\ sprev' = sdb /\ aprev' = adb
    /\ raised' = ""
    /\ slog' = <<>> /\ alog' = <<>>
    /\ UNCHANGED <<hooks, tasks, sdb, adb, created>>

\* A caller between two calls makes any call, with any arguments.
AnyCreate ==
    call = Idle /\ \E form \in CreateForms, dialect \in Dialects : CallCreate(form, dialect)
AnyUpdate ==
    call = Idle /\ \E item_id \in ItemIds, form \in UpdateForms, dialect \in Dialects :
                      CallUpdate(item_id, form, dialect)
AnyDelete == call = Idle /\ \E item_id \in ItemIds : CallDelete(item_id)
AnyGetItem == call = Idle /\ \E item_id \in ItemIds : CallGetItem(item_id)
AnyExists == call = Idle /\ \E item_id \in ItemIds : CallExists(item_id)
AnyGetCollection ==
    call = Idle /\ \E filter_spec \in SomeFilters, order_options \in SomeOrders,
                      paging_options \in SomePagings, tie \in Ties :
                      CallGetCollection(filter_spec, order_options, paging_options, tie)
AnyCount == call = Idle /\ \E filter_spec \in SomeFilters : CallCount(filter_spec)

Next ==
    \/ AnyCreate
    \/ AnyUpdate
    \/ AnyDelete
    \/ AnyGetItem
    \/ AnyExists
    \/ AnyGetCollection
    \/ AnyCount
    \/ Resume

Spec == Init /\ [][Next]_vars

\* A call of create, update, delete, get_item or exists during which the
\* backend raises an OperationalError at the method's first session call of
\* kind step, where the method would otherwise have returned.
CallFailing(op, item_id, form, sok, aok, step) ==
    /\ sok.res.err = "none" /\ aok.res.err = "none"
    /\ \E i \in DOMAIN MethodCalls(op, sok.res) : MethodCalls(op, sok.res)[i] = step
    /\ Cardinality(sok.db) <= MaxId /\ \A r \in sok.db \cup aok.db : r.id <= MaxId
    /\ LET s == Failing(sdb, sok, op, step)
           a == Failing(adb, aok, op, step)
       IN  /\ sdb' = s.db /\ adb' = a.db
           /\ sres' = s.res /\ ares' = a.res
           /\ call' = Call(op, item_id, form, <<>>, <<>>, <<>>)
           /\ sprev' = sdb /\ aprev' = adb
           /\ raised' = ""
           /\ created' = IF s.db = sdb /\ a.db = adb THEN created
                         ELSE {m \in created : m.id # item_id}
           /\ slog' = DatabaseSession(s.calls, TRUE)
           /\ alog' = DatabaseSession(a.calls, TRUE)
           /\ UNCHANGED <<hooks, tasks>>

\* sok and aok above are what the blocking and the suspending method would
\* have done and returned had the backend not failed.
AnyFailing ==
    call = Idle /\ \E step \in {"execute", "commit", "refresh"} :
        \/ \E form \in CreateForms :
              CallFailing("create", 0, form, Create(sdb, form, "sqlite"),
                          AsyncCreate(adb, form, "sqlite"), step)
        \/ \E item_id \in ItemIds, form \in UpdateForms :
              CallFailing("update", item_id, form, Update(sdb, item_id, form, "sqlite"),
                          AsyncUpdate(adb, item_id, form, "sqlite"), step)
        \/ \E item_id \in ItemIds :
              CallFailing("delete", item_id, NoForm, Delete(sdb, item_id),
                          AsyncDelete(adb, item_id), step)
        \/ \E item_id \in ItemIds :
              CallFailing("get_item", item_id, NoForm,
                          [db |-> sdb, orig |-> "", res |-> GetItem(sdb, item_id)],
                          [db |-> adb, orig |-> "", res |-> AsyncGetItem(adb, item_id)], step)
        \/ \E item_id \in ItemIds :
              CallFailing("exists", item_id, NoForm,
                          [db |-> sdb, orig |-> "", res |-> Exists(sdb, item_id)],
                          [db |-> adb, orig |-> "", res |-> AsyncExists(adb, item_id)], step)

\* The repository on a backend that may fail.
NextSession == Next \/ AnyFailing

\* The session calls of a method do not depend on the repository's hooks: two
\* of the hook sets are enough.
InitSession == Init /\ hooks \in {h \in HookSets : h.order[1].dir = "ASC"}

SpecSession == InitSession /\ [][NextSession]_vars

\* ------------------------------------------------- cancellation
\* The awaited session calls: where a task of the suspending repository can be
\* cancelled.
SuspensionPoints == {"execute", "delete", "commit", "refresh", "rollback"}

\* The cancelled scope, had it released the session only in a handler of
\* Exception: a CancelledError would skip the release.
AsyncSessionCancelled_NoFinally(events, k) == SubSeq(events, 1, k)

\* Database.async_session when the task is cancelled at the k-th event of a
\* call that would have made the given events: CancelledError is raised at
\* that await; it is no Exception, so neither the method's handlers nor the
\* scope's except clause run (no rollback call), and the finally clause
\* closes the session, which ends its transaction, and removes it from the
\* registry.
AsyncSessionCancelled(events, k) == SubSeq(events, 1, k) \o <<"close", "remove">>

\* A call of the suspending repository cancelled at an awaited event of its
\* session; aok is what the method does when it is not cancelled. What was
\* committed before the cancelled await is stored; a cancelled commit may or
\* may not have reached the backend. The blocking repository is not called.
CallCancelled(op, item_id, form, aok) ==
    LET events == DatabaseSession(MethodCalls(op, aok.res), aok.res.err # "none")
    IN  \E k \in DOMAIN events :
            /\ events[k] \in SuspensionPoints
            /\ \A r \in aok.db : r.id <= MaxId
            /\ \/ adb' = (IF \E j \in 1..(k - 1) : events[j] = "commit" THEN aok.db ELSE adb)
               \/ events[k] = "commit" /\ adb' = aok.db
            /\ ares' = RaiseError("CancelledError")
            /\ alog' = AsyncSessionCancelled(events, k)
            /\ call' = Call(op, item_id, form, <<>>, <<>>, <<>>)
            /\ sres' = NoOutcome /\ slog' = <<>>
            /\ sprev' = sdb /\ aprev' = adb
            /\ raised' = ""
            /\ created' = {m \in created : m.id # item_id}
            /\ UNCHANGED <<hooks, tasks, sdb>>

AnyCancelled ==
    /\ call = Idle
    /\ \/ \E form \in CreateForms :
              CallCancelled("create", 0, form, AsyncCreate(adb, form, "sqlite"))
       \/ \E item_id \in ItemIds, form \in UpdateForms :
              CallCancelled("update", item_id, form, AsyncUpdate(adb, item_id, form, "sqlite"))
       \/ \E item_id \in ItemIds :
              CallCancelled("delete", item_id, NoForm, AsyncDelete(adb, item_id))
       \/ \E item_id \in ItemIds :
              CallCancelled("get_item", item_id, NoForm,
                            [db |-> adb, orig |-> "", res |-> AsyncGetItem(adb, item_id)])
       \/ \E item_id \in ItemIds :
              CallCancelled("exists", item_id, NoForm,
                            [db |-> adb, orig |-> "", res |-> AsyncExists(adb, item_id)])

\* The repositories when tasks of the suspending one may be cancelled. The
\* two are called together from equal stores: the calls stop where a
\* cancelled call has left the stores different.
NextCancel ==
    \/ sdb = adb /\ AnyCreate
    \/ sdb = adb /\ AnyUpdate
    \/ sdb = adb /\ AnyDelete
    \/ sdb = adb /\ AnyGetItem
    \/ sdb = adb /\ AnyExists
    \/ sdb = adb /\ AnyGetCollection
    \/ sdb = adb /\ AnyCount
    \/ sdb = adb /\ AnyCancelled
    \/ Resume

SpecCancel == InitSession /\ [][NextCancel]_vars

\* ------------------------------------------------- properties
\* The primary keys stored in a table.
StoredIds(tbl) == {r.id : r \in tbl}

\* C1: a model create returned is what get_item returns for its id, in both
\* repositories, as long as that id was not updated or deleted since: for
\* every such model now, and in the outcome of every get_item call.
RoundTripIdentity ==
    /\ \A m \in created :
          /\ GetItem(sdb, m.id) = ReturnModel(m)
          /\ AsyncGetItem(adb, m.id) = ReturnModel(m)
    /\ call.op = "get_item" =>
          \A m \in created : m.id = call.item_id => sres = ReturnModel(m) /\ ares = ReturnModel(m)

\* A get_item call has returned the model an earlier create returned.
RoundTripWitness ==
    /\ call.op = "get_item"
    /\ \E m \in created : m.id = call.item_id /\ sres = ReturnModel(m) /\ ares = ReturnModel(m)

\* C2: for every identifier with no stored record (never created, or
\* deleted), get_item, update and delete raise ItemNotFound and exists
\* returns false, in both repositories: whatever call the caller makes next,
\* and in the outcome of the call just made.
NotFoundConsistency ==
    /\ call = Idle => \A id \in ItemIds \ StoredIds(sdb) :
          /\ GetItem(sdb, id) = ItemNotFoundException(id)
          /\ Exists(sdb, id) = ReturnBool(FALSE)
          /\ Delete(sdb, id).res = ItemNotFoundException(id)
          /\ \A form \in UpdateForms, dialect \in Dialects :
                Update(sdb, id, form, dialect).res = ItemNotFoundException(id)
    /\ call = Idle => \A id \in ItemIds \ StoredIds(adb) :
          /\ AsyncGetItem(adb, id) = ItemNotFoundException(id)
          /\ AsyncExists(adb, id) = ReturnBool(FALSE)
          /\ AsyncDelete(adb, id).res = ItemNotFoundException(id)
          /\ \A form \in UpdateForms, dialect \in Dialects :
                AsyncUpdate(adb, id, form, dialect).res = ItemNotFoundException(id)
    /\ (call.op \in {"get_item", "update", "delete"} /\ call.item_id \notin StoredIds(sprev))
          => sres = ItemNotFoundException(call.item_id) /\ sdb = sprev
    /\ (call.op \in {"get_item", "update", "delete"} /\ call.item_id \notin StoredIds(aprev))
          => ares = ItemNotFoundException(call.item_id) /\ adb = aprev
    /\ (call.op = "exists" /\ call.item_id \notin StoredIds(sprev)) => sres = ReturnBool(FALSE)
    /\ (call.op = "exists" /\ call.item_id \notin StoredIds(aprev)) => ares = ReturnBool(FALSE)

\* A record was deleted, and its identifier is now not found.
NotFoundWitness ==
    /\ call.op = "delete" /\ sres.err = "none" /\ ares.err = "none"
    /\ call.item_id \notin StoredIds(sdb) \cup StoredIds(adb)
    /\ GetItem(sdb, call.item_id).err = "ItemNotFound"
    /\ AsyncExists(adb, call.item_id) = ReturnBool(FALSE)

\* A record passes the repository's default filter.
PassesDefaultFilter(r) == EvalCondition(hooks.filter, r) = "T"

\* A record satisfies the caller's filter (every record does when there is none).
PassesCallerFilter(filter_spec, r) ==
    \/ Len(filter_spec) = 0
    \/ EvalCondition(is_satisfied_by(convert(filter_spec[1]).val).val, r) = "T"

\* C3: in both repositories get_collection returns only records that pass
\* the default filter, and count counts exactly the records that pass the
\* default filter and the caller's filter, with or without a caller filter.
DefaultFilterAlwaysApplied ==
    /\ (call.op = "get_collection" /\ sres.err = "none")
          => \A i \in DOMAIN sres.items : PassesDefaultFilter(sres.items[i])
    /\ (call.op = "get_collection" /\ ares.err = "none")
          => \A i \in DOMAIN ares.items : PassesDefaultFilter(ares.items[i])
    /\ (call.op = "count" /\ sres.err = "none")
          => sres.n = Cardinality({r \in sdb : /\ PassesDefaultFilter(r)
                                               /\ PassesCallerFilter(call.filter, r)})
    /\ (call.op = "count" /\ ares.err = "none")
          => ares.n = Cardinality({r \in adb : /\ PassesDefaultFilter(r)
                                               /\ PassesCallerFilter(call.filter, r)})

\* C4: made with the same arguments on equal stores, every call has the
\* same outcome in the blocking and in the suspending repository, and leaves
\* the stores equal.
FlavoursAgree == sres = ares /\ sdb = adb

\* C5: a create whose unique-constrained attribute equals that of a stored
\* record raises UniqueViolation, stores nothing (the count is unchanged)
\* and leaves every stored record as get_item returned it before.
UniquenessEnforced ==
    (/\ call.op = "create"
     /\ \E r \in sprev : r.username = call.form.username)
    => /\ sres = UniqueViolationException("create", call.form)
       /\ ares = UniqueViolationException("create", call.form)
       /\ Count(sdb, <<>>) = Count(sprev, <<>>)
       /\ AsyncCount(adb, <<>>) = AsyncCount(aprev, <<>>)
       /\ Cardinality(sdb) = Cardinality(sprev) /\ Cardinality(adb) = Cardinality(aprev)
       /\ \A r \in sprev : GetItem(sdb, r.id) = ReturnModel(ConvertDbItemToModel(r))
       /\ \A r \in aprev : AsyncGetItem(adb, r.id) = ReturnModel(ConvertDbItemToModel(r))

\* A second create with a stored username was refused, on a backend whose
\* text spells the marker in upper case.
UniquenessWitness ==
    /\ call.op = "create" /\ sres.err = "UniqueViolation" /\ ares.err = "UniqueViolation"
    /\ \E r \in sdb : r.username = call.form.username
    /\ Contains(raised, "UNIQUE")

\* The kind of error each backend text calls for.
ClassOf ==
    [orig \in BackendTexts |->
        LET text == Lower(orig)
        IN  IF Contains(text, "unique") \/ Contains(text, "duplicate") THEN "UniqueViolation"
            ELSE IF Contains(text, "foreign") \/ Contains(text, "reference") THEN "RelationViolation"
            ELSE "IntegrityError"]

\* The error the text calls for, with the action and the form it carries.
Classified(orig, form, action) ==
    IF ClassOf[orig] = "UniqueViolation" THEN UniqueViolationException(action, form)
    ELSE IF ClassOf[orig] = "RelationViolation" THEN RelationViolationException(action, form)
    ELSE IntegrityError(orig)

\* C6: when the backend reports an integrity failure during create or
\* update the stored records are as before the call (rolled back) and the
\* call raises UniqueViolation if the lower-cased text holds "unique" or
\* "duplicate", else RelationViolation if it holds "foreign" or "reference",
\* else the backend's error unchanged; the violation names the action and
\* carries the form.
ViolationsClassified ==
    (call.op \in {"create", "update"} /\ raised # "")
    => /\ sdb = sprev /\ adb = aprev
       /\ sres = Classified(raised, call.form, call.op)
       /\ ares = Classified(raised, call.form, call.op)

\* A text holding markers of both groups was classified as UniqueViolation.
ViolationsWitness ==
    /\ call.op = "create"
    /\ raised # ""
    /\ {"unique", "duplicate"} \cap MarkersIn[raised] # {}
    /\ {"foreign", "reference"} \cap MarkersIn[raised] # {}
    /\ sres = UniqueViolationException("create", call.form)
    /\ ares = UniqueViolationException("create", call.form)

\* ------------------------------------------------- filtering a stored collection
\* The collections create_default_mock_collection stores: FixtureRows rows
\* with the keys 1..FixtureRows and distinct usernames, any of them with a
\* null text, the second one with an author.
FixtureNames == <<"ann", "Bob", "cy", "Dee", "eve">>
FixtureTables ==
    {{[id |-> k, username |-> StrV(FixtureNames[k]), text |-> texts[k],
       author_id |-> IF k = 2 THEN IntV(1) ELSE NULL] : k \in 1..FixtureRows}
        : texts \in [1..FixtureRows -> {NULL, StrV("a"), StrV("b")}]}

\* The backend's own row order while the collection is filtered.
KeyOrder == [k \in 1..FixtureRows |-> k]

\* The operators that compare with one value.
ScalarOperators == {"E", "NE", "GT", "LT", "GTE", "LTE"}

\* The leaves a caller filters with: every operator on the key and on the
\* nullable text, against a value and against None; IN / NOT_IN with lists
\* (empty, plain, holding None) and with a scalar; an operator outside the
\* Operator enumeration; an attribute the model lacks.
Leaves ==
    {AttributeSpecification("id", v, op) : v \in {NULL, IntV(2)}, op \in ScalarOperators}
    \cup {AttributeSpecification("text", v, op) : v \in {NULL, StrV("a")}, op \in ScalarOperators}
    \cup {AttributeSpecification("id", v, op) :
             v \in {IntV(2), ListV(<<>>), ListV(<<IntV(1), IntV(3)>>), ListV(<<IntV(1), NULL>>)},
             op \in {"IN", "NOT_IN"}}
    \cup {AttributeSpecification("text", v, op) :
             v \in {StrV("a"), ListV(<<StrV("a"), StrV("b")>>), ListV(<<NULL>>)},
             op \in {"IN", "NOT_IN"}}
    \cup {AttributeSpecification("username", StrV("b%"), op) : op \in {"LIKE", "ILIKE"}}
    \cup {AttributeSpecification(name, IntV(2), op) :
             name \in {"id", "missing"}, op \in {"E", "IN", "UnsupportedOperator"}}

\* The leaves composite filters are built from: valid ones (two of them
\* unknown on a null text), a scalar given to IN, an unsupported operator.
LeafPool ==
    {AttributeSpecification("id", IntV(2), "LTE"),
     AttributeSpecification("text", StrV("a"), "E"),
     AttributeSpecification("text", StrV("a"), "NE"),
     AttributeSpecification("id", IntV(2), "IN"),
     AttributeSpecification("id", IntV(2), "UnsupportedOperator")}

\* The leaves nested filters are built from.
NestPool ==
    {AttributeSpecification("id", IntV(2), "LTE"),
     AttributeSpecification("text", StrV("a"), "NE"),
     AttributeSpecification("id", IntV(2), "IN")}

\* The lists of 1..MaxChildren distinct elements of a set.
ChildLists(S) ==
    UNION {{cs \in [1..n -> S] : \A i, j \in 1..n : i # j => cs[i] # cs[j]} : n \in 1..MaxChildren}

\* The filters with one interior node over the leaves of a pool.
Composites(pool) ==
    {NotSpecification(l) : l \in pool}
    \cup {AndSpecification(cs) : cs \in ChildLists(pool)}
    \cup {OrSpecification(cs) : cs \in ChildLists(pool)}

RECURSIVE Nested(_)
\* The filters nested d interior nodes deep: a filter one node less deep
\* under a Not, under an And before a leaf, under an Or after a leaf.
Nested(d) ==
    IF d <= 1 THEN Composites(NestPool)
    ELSE {NotSpecification(t) : t \in Nested(d - 1)}
         \cup {AndSpecification(<<t, AttributeSpecification("id", IntV(2), "LTE")>>) :
                  t \in Nested(d - 1)}
         \cup {OrSpecification(<<AttributeSpecification("text", StrV("a"), "NE"), t>>) :
                  t \in Nested(d - 1)}

\* The filters of the calls on a stored collection.
Filters == Leaves \cup Composites(LeafPool) \cup UNION {Nested(d) : d \in 2..MaxDepth}

\* The repositories whose collection is filtered: one with no default filter
\* and ascending keys, one with a default filter and descending keys.
FilterHookSets == {h \in HookSets : (h.filter = TrueCondition) <=> (h.order[1].dir = "ASC")}

InitFilter ==
    /\ hooks \in FilterHookSets
    /\ sdb \in FixtureTables
    /\ adb = sdb
    /\ call = Idle
    /\ sres = NoOutcome
    /\ ares = NoOutcome
    /\ sprev = sdb
    /\ aprev = sdb
    /\ raised = ""
    /\ created = {}
    /\ slog = <<>>
    /\ alog = <<>>
    /\ tasks = NoTasks

\* get_collection(filter_spec) with no order and no paging.
FilterGetCollection ==
    call = Idle /\ \E f \in Filters : CallGetCollection(<<f>>, <<>>, <<>>, KeyOrder)

\* count(filter_spec)
FilterCount == call = Idle /\ \E f \in Filters : CallCount(<<f>>)

NextFilter == FilterGetCollection \/ FilterCount \/ Resume

SpecFilter == InitFilter /\ [][NextFilter]_vars

\* ------------------------------------------------- properties of filtering
\* The records a call returned, as a set.
ItemSet(res) == {res.items[i] : i \in DOMAIN res.items}

\* The filter of the call on record, and whether the call is a read with a filter.
CallFilter == call.filter[1]
FilteredRead == call.op \in {"get_collection", "count"} /\ Len(call.filter) = 1

\* What get_collection returns for a filter alone, in each repository.
SyncSelection(f) == ItemSet(GetCollection(sprev, <<f>>, <<>>, <<>>, KeyOrder))
AsyncSelection(f) == ItemSet(AsyncGetCollection(aprev, <<f>>, <<>>, <<>>, KeyOrder))

\* The records every child of an And selects, or some child of an Or selects,
\* given what get_collection returns for a child alone.
Combined(f, selection(_)) ==
    IF f.kind = "And"
    THEN {r \in UNION {selection(f.specs[i]) : i \in DOMAIN f.specs} :
             \A i \in DOMAIN f.specs : r \in selection(f.specs[i])}
    ELSE UNION {selection(f.specs[i]) : i \in DOMAIN f.specs}

\* The filter with its children in another order.
Permuted(f, p) == [f EXCEPT !.specs = [i \in DOMAIN f.specs |-> f.specs[p[i]]]]
ChildOrders(n) == {p \in [1..n -> 1..n] : \A i, j \in 1..n : i # j => p[i] # p[j]}

\* C7: get_collection with an AndSpecification returns exactly the records
\* get_collection returns for every child, with an OrSpecification those it
\* returns for at least one child, whatever the number of children and the
\* nesting; the children in any other order give the same outcome; count
\* returns the size of that set. In both repositories.
CompositeSelection ==
    (FilteredRead /\ CallFilter.kind \in {"And", "Or"} /\ sres.err = "none" /\ ares.err = "none")
    => /\ call.op = "get_collection" =>
             /\ ItemSet(sres) = Combined(CallFilter, SyncSelection)
             /\ ItemSet(ares) = Combined(CallFilter, AsyncSelection)
             /\ Len(sres.items) = Cardinality(ItemSet(sres))
             /\ Len(ares.items) = Cardinality(ItemSet(ares))
             /\ \A p \in ChildOrders(Len(CallFilter.specs)) :
                   /\ GetCollection(sprev, <<Permuted(CallFilter, p)>>, <<>>, <<>>, KeyOrder) = sres
                   /\ AsyncGetCollection(aprev, <<Permuted(CallFilter, p)>>, <<>>, <<>>, KeyOrder) = ares
       /\ call.op = "count" =>
             /\ sres.n = Cardinality(Combined(CallFilter, SyncSelection))
             /\ ares.n = Cardinality(Combined(CallFilter, AsyncSelection))
             /\ \A p \in ChildOrders(Len(CallFilter.specs)) :
                   /\ Count(sprev, <<Permuted(CallFilter, p)>>) = sres
                   /\ AsyncCount(aprev, <<Permuted(CallFilter, p)>>) = ares

\* An And of a nested filter and a leaf returned some records, fewer than
\* either child selects alone.
CompositeWitness ==
    /\ call.op = "get_collection" /\ Len(call.filter) = 1
    /\ CallFilter.kind = "And" /\ Len(CallFilter.specs) = 2
    /\ CallFilter.specs[1].kind \in {"And", "Or", "Not"}
    /\ sres.err = "none" /\ ares.err = "none"
    /\ ItemSet(sres) # {}
    /\ ItemSet(sres) # SyncSelection(CallFilter.specs[1])
    /\ ItemSet(sres) # SyncSelection(CallFilter.specs[2])
    /\ ItemSet(ares) = ItemSet(sres)

\* The records a read with a caller filter chooses among: those passing the
\* default filter in the blocking repository, every stored record in the
\* suspending one (whose _apply_filter leaves the default filter out when it
\* is given a filter).
Passing(tbl) == {ConvertDbItemToModel(r) : r \in {q \in tbl : PassesDefaultFilter(q)}}
SyncBase == Passing(sprev)
AsyncBase == {ConvertDbItemToModel(r) : r \in aprev}

\* The value (TRUE, FALSE or unknown) the backend gives a filter on a record.
FilterValue(f, r) == EvalCondition(is_satisfied_by(convert(f).val).val, r)

\* C8 as the specification states it: get_collection(Not(S)) returns exactly
\* the records passing the default filter that get_collection(S) does not
\* return, records with a null attribute included. (The suspending
\* repository is held to it where no default filter is set, the case in
\* which it filters as the blocking one does.)
NegationIsComplement ==
    (call.op = "get_collection" /\ Len(call.filter) = 1 /\ CallFilter.kind = "Not"
        /\ sres.err = "none" /\ ares.err = "none")
    => /\ ItemSet(sres) = SyncBase \ SyncSelection(CallFilter.specs[1])
       /\ hooks.filter = TrueCondition
             => ItemSet(ares) = Passing(aprev) \ AsyncSelection(CallFilter.specs[1])

\* C8, amended: get_collection(Not(S)) returns exactly the records on which S
\* is false; the results for S and for Not(S) are disjoint and together hold
\* the records on which S is true or false, while a record on which S is
\* unknown (a comparison met a null) is in neither result.
NegationOverKnown ==
    (call.op = "get_collection" /\ Len(call.filter) = 1 /\ CallFilter.kind = "Not"
        /\ sres.err = "none" /\ ares.err = "none")
    => LET S == CallFilter.specs[1]
       IN  /\ ItemSet(sres) \cap SyncSelection(S) = {}
           /\ ItemSet(ares) \cap AsyncSelection(S) = {}
           /\ ItemSet(sres) \cup SyncSelection(S) = {r \in SyncBase : FilterValue(S, r) # "N"}
           /\ ItemSet(ares) \cup AsyncSelection(S) = {r \in AsyncBase : FilterValue(S, r) # "N"}
           /\ ItemSet(sres) = {r \in SyncBase : FilterValue(S, r) = "F"}
           /\ ItemSet(ares) = {r \in AsyncBase : FilterValue(S, r) = "F"}

\* Not(S) returned some records, and a record with a null text is returned
\* neither for S nor for Not(S).
NegationWitness ==
    /\ call.op = "get_collection" /\ Len(call.filter) = 1 /\ CallFilter.kind = "Not"
    /\ sres.err = "none" /\ ares.err = "none"
    /\ ItemSet(sres) # {}
    /\ \E r \in SyncBase : /\ IsNull(r.text)
                           /\ r \notin ItemSet(sres)
                           /\ r \notin SyncSelection(CallFilter.specs[1])

\* The operators C9 names.
ComparingOperators == {"E", "NE", "GT", "LT", "GTE", "LTE", "IN", "NOT_IN"}

\* A get_collection call with one valid leaf as its filter has returned.
LeafRead ==
    /\ call.op = "get_collection" /\ Len(call.filter) = 1
    /\ CallFilter.kind = "Attr" /\ CallFilter.op \in ComparingOperators
    /\ sres.err = "none" /\ ares.err = "none"

\* The members of a list value.
Elements(v) == {v.l[i] : i \in DOMAIN v.l}

\* x satisfies op against v as the words read: None is a value like any
\* other, equal to itself alone and a member of the lists that hold it.
PlainlySatisfies(x, v, op) ==
    CASE op = "E" -> x = v
      [] op = "NE" -> x # v
      [] op = "GT" -> ~IsNull(x) /\ ~IsNull(v) /\ LessV(v, x)
      [] op = "LT" -> ~IsNull(x) /\ ~IsNull(v) /\ LessV(x, v)
      [] op = "GTE" -> ~IsNull(x) /\ ~IsNull(v) /\ ~LessV(x, v)
      [] op = "LTE" -> ~IsNull(x) /\ ~IsNull(v) /\ ~LessV(v, x)
      [] op = "IN" -> x \in Elements(v)
      [] op = "NOT_IN" -> x \notin Elements(v)

\* x satisfies op against v as the backend decides it: a null attribute
\* satisfies E None and NOT_IN of the empty list and nothing else, None as a
\* value is satisfied by NE of a non-null attribute and by nothing else, a None
\* in a list equals nothing and bars every attribute from NOT_IN.
BackendSatisfies(x, v, op) ==
    CASE op = "E" -> IF IsNull(v) THEN IsNull(x) ELSE ~IsNull(x) /\ x = v
      [] op = "NE" -> IF IsNull(v) THEN ~IsNull(x) ELSE ~IsNull(x) /\ x # v
      [] op = "GT" -> ~IsNull(x) /\ ~IsNull(v) /\ LessV(v, x)
      [] op = "LT" -> ~IsNull(x) /\ ~IsNull(v) /\ LessV(x, v)
      [] op = "GTE" -> ~IsNull(x) /\ ~IsNull(v) /\ ~LessV(x, v)
      [] op = "LTE" -> ~IsNull(x) /\ ~IsNull(v) /\ ~LessV(v, x)
      [] op = "IN" -> ~IsNull(x) /\ x \in Elements(v)
      [] op = "NOT_IN" -> \/ Elements(v) = {}
                          \/ ~IsNull(x) /\ NULL \notin Elements(v) /\ x \notin Elements(v)

\* The records come in the repository's default order (by key, up or down).
InDefaultOrder(items) ==
    \A i, j \in DOMAIN items :
        i < j => IF hooks.order[1].dir = "ASC" THEN items[i].id < items[j].id
                 ELSE items[i].id > items[j].id

\* C9 as the specification states it: get_collection with one leaf returns
\* exactly the records (passing the default filter) whose attribute satisfies
\* the operator against the value, None counting as a value, in the default
\* order. (The suspending repository is held to it where no default filter is set.)
LeafSelectsPlainly ==
    LeafRead
    => LET f == CallFilter
       IN  /\ ItemSet(sres) = {r \in SyncBase : PlainlySatisfies(ColumnValue(r, f.name), f.value, f.op)}
           /\ hooks.filter = TrueCondition
                 => ItemSet(ares) = {r \in Passing(aprev) :
                                       PlainlySatisfies(ColumnValue(r, f.name), f.value, f.op)}
           /\ InDefaultOrder(sres.items) /\ InDefaultOrder(ares.items)

\* C9, amended: get_collection with one leaf returns exactly the records
\* whose attribute satisfies the operator against the value as the backend
\* decides it (null attributes and None values as BackendSatisfies says), in
\* the default order.
LeafSelection ==
    LeafRead
    => LET f == CallFilter
       IN  /\ ItemSet(sres) = {r \in SyncBase : BackendSatisfies(ColumnValue(r, f.name), f.value, f.op)}
           /\ ItemSet(ares) = {r \in AsyncBase : BackendSatisfies(ColumnValue(r, f.name), f.value, f.op)}
           /\ Len(sres.items) = Cardinality(ItemSet(sres))
           /\ Len(ares.items) = Cardinality(ItemSet(ares))
           /\ InDefaultOrder(sres.items) /\ InDefaultOrder(ares.items)

\* NE against a value returned the records with another text, in the default
\* order, and left out a record with a null text; E None returns that record.
LeafWitness ==
    /\ LeafRead /\ CallFilter.op = "NE" /\ CallFilter.name = "text" /\ ~IsNull(CallFilter.value)
    /\ Len(sres.items) >= 2 /\ Len(ares.items) >= 2
    /\ \E r \in SyncBase :
          /\ IsNull(r.text) /\ r \notin ItemSet(sres)
          /\ r \in SyncSelection(AttributeSpecification("text", NULL, "E"))

RECURSIVE LeavesOf(_)
\* The leaves of a filter, left to right.
LeavesOf(f) ==
    IF f.kind = "Attr" THEN <<f>>
    ELSE IF Len(f.specs) = 0 THEN <<>>
    ELSE LeavesOf(f.specs[1]) \o
         (IF Len(f.specs) = 1 THEN <<>> ELSE LeavesOf([f EXCEPT !.specs = Tail(f.specs)]))

\* A leaf gives IN / NOT_IN a scalar; a leaf's operator is not an Operator.
ScalarGivenToIn(l) == l.op \in {"IN", "NOT_IN"} /\ l.value.t # "list"
UnsupportedOperator(l) == l.op \notin Operators

\* C10 as the specification states it: a filter holding a leaf that gives
\* IN / NOT_IN a scalar makes get_collection and count raise ValueError, and
\* one holding a leaf with an unsupported operator makes them raise
\* TypeError, wherever the leaf sits.
InvalidLeafRaises ==
    FilteredRead
    => LET ls == LeavesOf(CallFilter)
       IN  /\ (\E i \in DOMAIN ls : ScalarGivenToIn(ls[i]))
                 => sres.err = "ValueError" /\ ares.err = "ValueError"
           /\ (\E i \in DOMAIN ls : UnsupportedOperator(ls[i]))
                 => sres.err = "TypeError" /\ ares.err = "TypeError"

\* The error a leaf raises when it is evaluated, "none" for a valid leaf.
LeafError(l) ==
    IF l.name \notin Columns THEN "AttributeError"
    ELSE IF ScalarGivenToIn(l) THEN "ValueError"
    ELSE IF UnsupportedOperator(l) THEN "TypeError"
    ELSE "none"

\* C10, amended: get_collection and count raise the error of the first
\* invalid leaf, left to right: AttributeError when the model lacks the
\* leaf's attribute, else ValueError when IN / NOT_IN is given a scalar, else
\* TypeError when the operator is unsupported; wherever that leaf sits, and no
\* result is returned. A filter with no invalid leaf raises nothing.
FirstInvalidLeafRaises ==
    FilteredRead
    => LET ls == LeavesOf(CallFilter)
           bad == {i \in DOMAIN ls : LeafError(ls[i]) # "none"}
           expected == IF bad = {} THEN "none"
                       ELSE LeafError(ls[CHOOSE i \in bad : \A j \in bad : i <= j])
       IN  /\ sres.err = expected /\ ares.err = expected
           /\ expected # "none" => sres = RaiseError(expected) /\ ares = RaiseError(expected)

\* An Or of a valid leaf and, under a nested node, a leaf that gives IN a
\* scalar raised ValueError in get_collection.
InvalidLeafWitness ==
    /\ call.op = "get_collection" /\ Len(call.filter) = 1
    /\ CallFilter.kind = "Or" /\ Len(CallFilter.specs) = 2
    /\ CallFilter.specs[1].kind = "Attr" /\ LeafError(CallFilter.specs[1]) = "none"
    /\ CallFilter.specs[2].kind # "Attr"
    /\ \E i \in DOMAIN LeavesOf(CallFilter.specs[2]) :
          ScalarGivenToIn(LeavesOf(CallFilter.specs[2])[i])
    /\ sres = RaiseError("ValueError") /\ ares = RaiseError("ValueError")

\* ------------------------------------------------- converting a filter
RECURSIVE ConvertTrees(_)
\* The trees d interior nodes deep a caller hands over. With no interior node:
\* a valid leaf, a leaf with a list value, a leaf that gives IN a scalar, a
\* leaf naming an attribute the model lacks, and an object that is no
\* specification (a raw mapping). Deeper: a tree one node less deep under a
\* Not, under an And after a leaf that gives IN a scalar, under an Or before a
\* valid leaf.
ConvertTrees(d) ==
    IF d = 0
    THEN {AttributeSpecification("id", IntV(2), "LTE"),
          AttributeSpecification("text", ListV(<<StrV("a"), NULL>>), "NOT_IN"),
          AttributeSpecification("id", IntV(2), "IN"),
          AttributeSpecification("missing", IntV(2), "E"),
          OtherObject}
    ELSE IF d = 1 THEN Composites(ConvertTrees(0))
    ELSE {NotSpecification(t) : t \in ConvertTrees(d - 1)}
         \cup {AndSpecification(<<AttributeSpecification("id", IntV(2), "IN"), t>>) :
                  t \in ConvertTrees(d - 1)}
         \cup {OrSpecification(<<t, AttributeSpecification("id", IntV(2), "LTE")>>) :
                  t \in ConvertTrees(d - 1)}

\* The objects passed as filter_spec.
Objects == UNION {ConvertTrees(d) : d \in 0..MaxDepth}

InitConvert ==
    /\ hooks \in FilterHookSets
    /\ sdb \in {tbl \in FixtureTables : \A r \in tbl : r.text = StrV("a")}
    /\ adb = sdb
    /\ call = Idle
    /\ sres = NoOutcome
    /\ ares = NoOutcome
    /\ sprev = sdb
    /\ aprev = sdb
    /\ raised = ""
    /\ created = {}
    /\ slog = <<>>
    /\ alog = <<>>
    /\ tasks = NoTasks

\* get_collection(filter_spec) with any object as the filter.
ConvertGetCollection ==
    call = Idle /\ \E f \in Objects : CallGetCollection(<<f>>, <<>>, <<>>, KeyOrder)

\* count(filter_spec) with any object as the filter.
ConvertCount == call = Idle /\ \E f \in Objects : CallCount(<<f>>)

NextConvert == ConvertGetCollection \/ ConvertCount \/ Resume

SpecConvert == InitConvert /\ [][NextConvert]_vars

\* ------------------------------------------------- properties of the converter
RECURSIVE HoldsOther(_)
\* The tree holds, at its root or at any depth, a node that is no specification.
HoldsOther(f) == f.kind = "Other" \/ \E i \in DOMAIN f.specs : HoldsOther(f.specs[i])

\* C11: convert raises TypeError for every tree that holds, at the root or
\* nested at any depth, a node that is none of And / Or / Not / Attribute, and
\* for no other tree; get_collection and count then raise that TypeError in
\* both repositories whatever the leaves of the tree would raise when
\* evaluated, return nothing and leave the stored records alone.
NonSpecificationRaises ==
    FilteredRead
    => /\ HoldsOther(CallFilter)
             => /\ convert(CallFilter) = Raised("TypeError")
                /\ sres = RaiseError("TypeError") /\ ares = RaiseError("TypeError")
                /\ sdb = sprev /\ adb = aprev
       /\ ~HoldsOther(CallFilter) => convert(CallFilter).err = "none"

\* get_collection raised TypeError for an And whose first child is a leaf that
\* gives IN a scalar and whose second child holds a raw mapping under a
\* nested node.
NonSpecificationWitness ==
    /\ call.op = "get_collection" /\ Len(call.filter) = 1
    /\ CallFilter.kind = "And" /\ Len(CallFilter.specs) = 2
    /\ CallFilter.specs[1].kind = "Attr" /\ LeafError(CallFilter.specs[1]) = "ValueError"
    /\ CallFilter.specs[2].kind \in {"Not", "And", "Or"}
    /\ HoldsOther(CallFilter.specs[2])
    /\ sres = RaiseError("TypeError") /\ ares = RaiseError("TypeError")

\* The backend-side kind that stands for a caller-side kind.
BackendKind(kind) ==
    CASE kind = "Attr" -> "SaAttr"
      [] kind = "And" -> "SaAnd"
      [] kind = "Or" -> "SaOr"
      [] kind = "Not" -> "SaNot"
      [] OTHER -> "none"

RECURSIVE SameShape(_, _)
\* The backend tree has the caller tree's shape: the corresponding kind at
\* every position, as many children in the same order, and at the leaves the
\* same attribute name, value and operator.
SameShape(f, g) ==
    /\ g.kind = BackendKind(f.kind)
    /\ g.name = f.name /\ g.value = f.value /\ g.op = f.op
    /\ Len(g.specs) = Len(f.specs)
    /\ \A i \in DOMAIN f.specs : SameShape(f.specs[i], g.specs[i])

\* C12: for every tree of And / Or / Not / Attribute nodes, convert returns a
\* backend tree of the same shape: the corresponding kind at each position,
\* the same number and order of children, the same attribute name, value and
\* operator at the leaves.
ConversionKeepsShape ==
    (FilteredRead /\ ~HoldsOther(CallFilter))
    => /\ convert(CallFilter).err = "none"
       /\ SameShape(CallFilter, convert(CallFilter).val)

\* get_collection returned records for an Or whose first child is an And of
\* two different leaves, one of them with a list value, and the converted
\* tree has that shape.
ConversionWitness ==
    /\ call.op = "get_collection" /\ Len(call.filter) = 1
    /\ CallFilter.kind = "Or" /\ Len(CallFilter.specs) = 2
    /\ CallFilter.specs[1].kind = "And" /\ Len(CallFilter.specs[1].specs) = 2
    /\ CallFilter.specs[1].specs[1].op = "LTE"
    /\ CallFilter.specs[1].specs[2].value.t = "list"
    /\ sres.err = "none" /\ ares.err = "none" /\ Len(sres.items) > 0
    /\ convert(CallFilter).val.kind = "SaOr"
    /\ convert(CallFilter).val.specs[1].kind = "SaAnd"
    /\ convert(CallFilter).val.specs[1].specs[2].value.t = "list"

\* ------------------------------------------------- ordering and paging a stored collection
\* abstractrepo's PageResolver(page_size, start_page).get_page(page_number)
PageResolver(page_size, start_page, page_number) ==
    PagingOptions(<<page_size>>, <<(page_number - start_page) * page_size>>)

\* The order_options of the calls: None, an OrderOptions with no option, one
\* key (the nullable text in both directions with both null placements), two
\* keys, and a key the model lacks.
Orders ==
    {<<>>, << <<>> >>}
    \cup {<< <<OrderOption("text", dir, nones)>> >> : dir \in {"ASC", "DESC"}, nones \in {"FIRST", "LAST"}}
    \cup {<< <<OrderOption("text", "DESC", "FIRST"), OrderOption("id", "ASC", "LAST")>> >>,
          << <<OrderOption("author_id", "ASC", "LAST"), OrderOption("text", "DESC", "LAST")>> >>,
          << <<OrderOption("missing", "ASC", "FIRST")>> >>}

\* The paging_options of the calls: None, every PagingOptions with a limit
\* that is absent or 0..MaxLimit and an offset that is absent, 0, 1 or the
\* size of the collection, and the first three pages of every PageResolver.
Pagings ==
    {<<>>}
    \cup {<<PagingOptions(limit, offset)>> :
             limit \in {<<>>} \cup {<<k>> : k \in 0..MaxLimit},
             offset \in {<<>>, <<0>>, <<1>>, <<FixtureRows>>}}
    \cup UNION {{<<PageResolver(page_size, start_page, page_number)>> :
                    page_number \in start_page..(start_page + 2)} :
                page_size \in 1..MaxLimit, start_page \in 0..1}

\* get_collection(filter_spec, order_options, paging_options) on the stored
\* collection, the backend returning rows it is not told to order by
\* ascending or by descending key.
OrderGetCollection ==
    call = Idle /\ \E filter_spec \in {<<>>, <<AttributeSpecification("id", IntV(2), "GTE")>>},
                      order_options \in Orders, paging_options \in Pagings,
                      tie \in {KeyOrder, [k \in 1..FixtureRows |-> FixtureRows + 1 - k]} :
                      CallGetCollection(filter_spec, order_options, paging_options, tie)

\* count(filter_spec) on the stored collection.
OrderCount == call = Idle /\ \E filter_spec \in SomeFilters : CallCount(filter_spec)

NextOrder == OrderGetCollection \/ OrderCount \/ Resume

\* The collections ordered and paged are those whose first record has a null
\* text.
\* The fixture tables whose first record has no text, so that every order on
\* text meets a null.
InitOrder == InitFilter /\ \A r \in sdb : r.id = 1 => IsNull(r.text)

SpecOrder == InitOrder /\ [][NextOrder]_vars

\* ------------------------------------------------- properties of ordering and paging
\* The last call is a get_collection that returned a list in both repositories.
ListRead == call.op = "get_collection" /\ sres.err = "none" /\ ares.err = "none"

RECURSIVE InKeyOrder(_, _, _)
\* Model a may come before model b under the sort keys: on the first key
\* whose values differ, a null comes first exactly when nones is FIRST, and of
\* two non-null values the smaller comes first for ASC, the larger for DESC.
InKeyOrder(options, a, b) ==
    IF Len(options) = 0 THEN TRUE
    ELSE LET x == ColumnValue(a, Head(options).attribute)
             y == ColumnValue(b, Head(options).attribute)
         IN  IF x = y THEN InKeyOrder(Tail(options), a, b)
             ELSE IF IsNull(x) THEN Head(options).nones = "FIRST"
             ELSE IF IsNull(y) THEN Head(options).nones = "LAST"
             ELSE IF Head(options).direction = "ASC" THEN LessV(x, y)
             ELSE LessV(y, x)

\* C13: the list get_collection returns with order options is sorted
\* lexicographically by the sort keys in sequence order: for each key,
\* non-null values ascend for ASC and descend for DESC, and records with a
\* null key come before all others when nones is FIRST and after all of them
\* when nones is LAST, in both directions.
OrderedByKeys ==
    (ListRead /\ Len(call.order) = 1)
    => /\ \A i, j \in DOMAIN sres.items :
             i < j => InKeyOrder(call.order[1], sres.items[i], sres.items[j])
       /\ \A i, j \in DOMAIN ares.items :
             i < j => InKeyOrder(call.order[1], ares.items[i], ares.items[j])

\* get_collection, ordered by descending text with nulls first and then by
\* ascending key, returned all records: one with a null text first, then two
\* with equal texts in key order.
OrderedWitness ==
    /\ ListRead /\ Len(call.filter) = 0 /\ Len(call.paging) = 0
    /\ call.order = << <<OrderOption("text", "DESC", "FIRST"), OrderOption("id", "ASC", "LAST")>> >>
    /\ Len(sres.items) = FixtureRows /\ ares.items = sres.items
    /\ IsNull(sres.items[1].text) /\ ~IsNull(sres.items[2].text)
    /\ sres.items[2].text = sres.items[3].text
    /\ sres.items[2].id < sres.items[3].id

\* The row orders of the backend: by ascending and by descending key.
RowOrders == {KeyOrder, [k \in 1..FixtureRows |-> FixtureRows + 1 - k]}

\* Two models have equal values under every sort key.
SameKeys(options, a, b) ==
    \A k \in DOMAIN options :
        ColumnValue(a, options[k].attribute) = ColumnValue(b, options[k].attribute)

\* The list is ordered by the caller's sort keys and nothing else: records
\* the keys separate come in key order, records they do not separate come in
\* the backend's row order.
InCallerOrder(options, items, tie) ==
    \A i, j \in DOMAIN items :
        i < j => /\ InKeyOrder(options, items[i], items[j])
                 /\ SameKeys(options, items[i], items[j])
                       => tie[items[i].id] < tie[items[j].id]

\* C14: with order options get_collection orders by the caller's keys and does
\* not apply the default order (records the keys do not separate come in the
\* backend's row order, whichever it is); with no order options it returns
\* the records in the repository's default order.
CallerOrderReplacesDefault ==
    (ListRead /\ Len(call.paging) = 0)
    => IF Len(call.order) = 0
       THEN InDefaultOrder(sres.items) /\ InDefaultOrder(ares.items)
       ELSE /\ \A tie \in RowOrders :
                  /\ InCallerOrder(call.order[1],
                        GetCollection(sprev, call.filter, call.order, <<>>, tie).items, tie)
                  /\ InCallerOrder(call.order[1],
                        AsyncGetCollection(aprev, call.filter, call.order, <<>>, tie).items, tie)
            /\ \E tie \in RowOrders :
                  /\ sres = GetCollection(sprev, call.filter, call.order, <<>>, tie)
                  /\ ares = AsyncGetCollection(aprev, call.filter, call.order, <<>>, tie)

\* A repository whose default order is by descending key returned, ordered by
\* ascending text alone, two records with equal texts in ascending key order.
CallerOrderWitness ==
    /\ ListRead /\ Len(call.paging) = 0 /\ Len(call.filter) = 0
    /\ call.order = << <<OrderOption("text", "ASC", "LAST")>> >>
    /\ hooks.order[1].dir = "DESC"
    /\ Len(sres.items) >= 2 /\ ares.items = sres.items
    /\ sres.items[1].text = sres.items[2].text
    /\ sres.items[1].id < sres.items[2].id

\* The elements of a list at positions offset .. offset + limit - 1, counted
\* from 0: fewer when the list is shorter, none when offset is at or past its
\* end. limit is <<>> for "no limit".
Window(list, offset, limit) ==
    LET left == IF offset >= Len(list) THEN 0 ELSE Len(list) - offset
        n == IF Len(limit) = 1 /\ limit[1] < left THEN limit[1] ELSE left
    IN  [i \in 1..n |-> list[offset + i]]

\* What get_collection returns for the filter and order of the last call
\* without paging, the backend's row order being tie.
Unpaged(tie) == GetCollection(sprev, call.filter, call.order, <<>>, tie).items
AsyncUnpaged(tie) == AsyncGetCollection(aprev, call.filter, call.order, <<>>, tie).items

\* C15: with PagingOptions(limit = L, offset = K) get_collection returns the
\* elements at positions K .. K + L - 1 of the list get_collection returns for
\* the same filter and order without paging; a limit of None takes all the
\* elements from K on, an offset of None counts as 0, each independently of
\* the other.
PagingTakesWindow ==
    (ListRead /\ Len(call.paging) = 1)
    => LET K == IF Len(call.paging[1].offset) = 0 THEN 0 ELSE call.paging[1].offset[1]
           L == call.paging[1].limit
       IN  \E tie \in RowOrders :
              /\ sres.items = Window(Unpaged(tie), K, L)
              /\ ares.items = Window(AsyncUnpaged(tie), K, L)

\* With a filter, an order and PagingOptions(limit = 1, offset = 1)
\* get_collection returned the second of the two records the filter selects;
\* with an offset alone it returned all but the first.
PagingWitness ==
    /\ ListRead /\ Len(call.filter) = 1 /\ Len(call.order) = 1
    /\ call.paging = <<PagingOptions(<<1>>, <<1>>)>>
    /\ \E tie \in RowOrders :
          /\ Len(Unpaged(tie)) = 2
          /\ sres.items = <<Unpaged(tie)[2]>>
          /\ ares.items = sres.items
          /\ GetCollection(sprev, call.filter, call.order,
                           <<PagingOptions(<<>>, <<1>>)>>, tie).items = <<Unpaged(tie)[2]>>

\* The order options a caller may pass that name columns of the model.
ValidOrders == {o \in Orders : Len(o) = 0 \/ ToExpression(o[1]).err = "none"}

\* C16: count(f) is the number of models get_collection(f) returns without
\* paging, whatever (valid) order options it is given; and get_collection
\* without paging returns as many models as count(f) says, never fewer: with
\* no filter, one for every stored record that passes the default filter.
CountMatchesCollection ==
    /\ (call.op = "count" /\ sres.err = "none" /\ ares.err = "none")
          => \A o \in ValidOrders, tie \in RowOrders :
                /\ GetCollection(sprev, call.filter, o, <<>>, tie).err = "none"
                /\ Len(GetCollection(sprev, call.filter, o, <<>>, tie).items) = sres.n
                /\ Len(AsyncGetCollection(aprev, call.filter, o, <<>>, tie).items) = ares.n
    /\ (ListRead /\ Len(call.paging) = 0)
          => /\ Count(sprev, call.filter) = ReturnInt(Len(sres.items))
             /\ AsyncCount(aprev, call.filter) = ReturnInt(Len(ares.items))
             /\ Len(call.filter) = 0
                   => /\ Len(sres.items) = Cardinality(Passing(sprev))
                      /\ Len(ares.items) = Cardinality(Passing(aprev))

\* count with a filter returned 2 for a collection of more records, the
\* number of models get_collection returns for that filter.
CountWitness ==
    /\ call.op = "count" /\ Len(call.filter) = 1
    /\ sres = ReturnInt(2) /\ ares = ReturnInt(2)
    /\ Cardinality(sprev) > 2
    /\ Len(GetCollection(sprev, call.filter, <<>>, <<>>, KeyOrder).items) = 2

ReadOps == {"get_collection", "count", "get_item", "exists"}

Places(log, e) == {i \in DOMAIN log : log[i] = e}

\* One session was acquired, first of all, and it was closed and removed from
\* the registry after everything else the call did with it.
OneSessionReleased(log) ==
    /\ Len(log) >= 3
    /\ Places(log, "session") = {1}
    /\ Places(log, "close") = {Len(log) - 1}
    /\ Places(log, "remove") = {Len(log)}

\* C19: every public call acquires exactly one session and has released it
\* when it ends, on every exit path: a normal return, ItemNotFound, a
\* constraint violation, a translation error, an unclassified backend error.
\* Between two calls no session is open.
SessionReleased ==
    /\ call # Idle => OneSessionReleased(slog) /\ OneSessionReleased(alog)
    /\ call = Idle => slog = <<>> /\ alog = <<>>

\* An update whose refresh failed in the backend ended with an
\* OperationalError and with its session rolled back, closed and removed.
SessionWitness ==
    /\ call.op = "update"
    /\ sres = RaiseError("OperationalError") /\ ares = RaiseError("OperationalError")
    /\ slog = <<"session", "execute", "commit", "refresh", "rollback", "close", "remove">>
    /\ alog = slog

\* The round-trips to the backend among the session calls of a method.
RoundTrips == {"execute", "commit", "refresh"}

\* The outcome and the session log agree with commit-on-success and
\* rollback-on-error: a success committed and never rolled back; an error
\* raised after a round-trip was followed by a rollback before the session
\* was closed.
CommittedOrRolledBack(res, log) ==
    /\ res.err = "none"
          => /\ \E i \in Places(log, "commit") : \A j \in Places(log, "close") : i < j
             /\ Places(log, "rollback") = {}
    /\ (res.err # "none" /\ \E i \in DOMAIN log : log[i] \in RoundTrips)
          => \E r \in Places(log, "rollback") :
                /\ \A i \in DOMAIN log : log[i] \in RoundTrips => i < r
                /\ \A j \in Places(log, "close") : r < j

\* C20: create, update and delete commit when they succeed, and whenever one
\* of them raises an error after a backend round-trip, whatever the error,
\* rollback has been called on its session before the error reaches the
\* caller.
MutationsCommitOrRollBack ==
    call.op \in {"create", "update", "delete"}
    => CommittedOrRolledBack(sres, slog) /\ CommittedOrRolledBack(ares, alog)

\* A delete whose commit failed in the backend with an error that is no
\* IntegrityError ended with a rollback, and the record is still stored.
RollbackWitness ==
    /\ call.op = "delete"
    /\ sres = RaiseError("OperationalError") /\ ares = RaiseError("OperationalError")
    /\ slog = <<"session", "execute", "delete", "commit", "rollback", "close", "remove">>
    /\ alog = slog
    /\ sdb = sprev /\ \E r \in sdb : r.id = call.item_id

\* ------------------------------------------------- filters of unusual shape
\* Membership leaves on the key, whose value is a list or a tuple, empty or
\* not, a scalar or a string, alone and under one interior node; And and Or
\* without children, at the root and under an And or an Or beside a leaf.
Shapes ==
    LET values == {ListV(<<>>), ListV(<<IntV(1), IntV(3)>>),
                   TupleV(<<>>), TupleV(<<IntV(1), IntV(3)>>), IntV(2), StrV("ab")}
        leaves == {AttributeSpecification("id", v, op) :
                      v \in values, op \in {"IN", "NOT_IN"}}
        plain == AttributeSpecification("id", IntV(2), "LTE")
        empties == {AndSpecification(<<>>), OrSpecification(<<>>)}
    IN  leaves
        \cup {NotSpecification(l) : l \in leaves}
        \cup {AndSpecification(<<plain, l>>) : l \in leaves}
        \cup empties
        \cup {AndSpecification(<<plain, e>>) : e \in empties}
        \cup {OrSpecification(<<e, plain>>) : e \in empties}
        \cup {AndSpecification(<<e>>) : e \in empties}

\* get_collection(filter_spec) with a filter of unusual shape.
ShapeGetCollection ==
    call = Idle /\ \E f \in Shapes : CallGetCollection(<<f>>, <<>>, <<>>, KeyOrder)

\* count(filter_spec) with a filter of unusual shape.
ShapeCount == call = Idle /\ \E f \in Shapes : CallCount(<<f>>)

NextShapes == ShapeGetCollection \/ ShapeCount \/ Resume

SpecShapes == InitFilter /\ [][NextShapes]_vars

\* ------------------------------------------------- properties of the not-found path
\* The last call looked for an identifier that no stored record has.
LookedForAbsent(op) ==
    /\ call.op = op
    /\ call.item_id \notin StoredIds(sprev) /\ call.item_id \notin StoredIds(aprev)

\* The session was rolled back and never committed.
RolledBackOnly(log) == Places(log, "rollback") # {} /\ Places(log, "commit") = {}

\* The session was committed and never rolled back.
CommittedOnly(log) == Places(log, "commit") # {} /\ Places(log, "rollback") = {}

\* C21 as stated: when get_item or exists finds no record, rollback is called
\* on the session and commit is not; get_item raises ItemNotFound and exists
\* returns false.
NotFoundReadsRollBack ==
    /\ LookedForAbsent("get_item")
          => /\ sres = ItemNotFoundException(call.item_id) /\ RolledBackOnly(slog)
             /\ ares = ItemNotFoundException(call.item_id) /\ RolledBackOnly(alog)
    /\ LookedForAbsent("exists")
          => /\ sres = ReturnBool(FALSE) /\ RolledBackOnly(slog)
             /\ ares = ReturnBool(FALSE) /\ RolledBackOnly(alog)

\* C21 as amended: when get_item finds no record, rollback is called on its
\* session and commit is not, and it raises ItemNotFound; when exists finds
\* no record it returns false, and its session is committed on the return,
\* not rolled back.
NotFoundGetItemRollsBack ==
    /\ LookedForAbsent("get_item")
          => /\ sres = ItemNotFoundException(call.item_id) /\ RolledBackOnly(slog)
             /\ ares = ItemNotFoundException(call.item_id) /\ RolledBackOnly(alog)
    /\ LookedForAbsent("exists")
          => /\ sres = ReturnBool(FALSE) /\ CommittedOnly(slog)
             /\ ares = ReturnBool(FALSE) /\ CommittedOnly(alog)

\* get_item looked, among stored records, for an identifier none of them has,
\* raised ItemNotFound, and its session was rolled back by the method and by
\* the scope.
NotFoundRollbackWitness ==
    /\ LookedForAbsent("get_item")
    /\ sdb # {}
    /\ sres = ItemNotFoundException(call.item_id)
    /\ slog = <<"session", "execute", "rollback", "rollback", "close", "remove">>
    /\ alog = slog

\* ------------------------------------------------- properties of cancellation
\* The session is open: it was acquired and not closed since.
Open(log) == \E i \in Places(log, "session") : \A j \in Places(log, "close") : j < i

\* The session's transaction is pending: something was done in it that no
\* later commit, rollback or close has ended.
Pending(log) ==
    \E i \in DOMAIN log :
        /\ log[i] \in {"add", "execute", "delete", "refresh", "commit", "rollback"}
        /\ \A j \in DOMAIN log : j > i => log[j] \notin {"commit", "rollback", "close"}

\* The last call of the suspending repository was cancelled.
Cancelled == ares = RaiseError("CancelledError")

\* What the cancelled call would have stored had it run to its end.
Uncancelled ==
    CASE call.op = "create" -> AsyncCreate(aprev, call.form, "sqlite").db
      [] call.op = "update" -> AsyncUpdate(aprev, call.item_id, call.form, "sqlite").db
      [] call.op = "delete" -> AsyncDelete(aprev, call.item_id).db
      [] OTHER -> aprev

Others(tbl, item_id) == {r \in tbl : r.id # item_id}

\* The last call was a delete that returned in both repositories.
Deleted == call.op = "delete" /\ sres.err = "none" /\ ares.err = "none"

\* What delete returned and what it left stored: the model get_item gave
\* before the call; no record with that key, every other record as it was;
\* exists false and get_item ItemNotFound afterwards.
DeleteRemovesRecord ==
    /\ sres = GetItem(sprev, call.item_id) /\ ares = AsyncGetItem(aprev, call.item_id)
    /\ sdb = Others(sprev, call.item_id) /\ adb = Others(aprev, call.item_id)
    /\ Cardinality(sdb) = Cardinality(sprev) - 1 /\ Cardinality(adb) = Cardinality(aprev) - 1
    /\ Exists(sdb, call.item_id) = ReturnBool(FALSE)
    /\ AsyncExists(adb, call.item_id) = ReturnBool(FALSE)
    /\ GetItem(sdb, call.item_id) = ItemNotFoundException(call.item_id)
    /\ AsyncGetItem(adb, call.item_id) = ItemNotFoundException(call.item_id)

\* The deleted record passed the repository's default filter.
DeletedWasCounted == \E r \in sprev : r.id = call.item_id /\ PassesDefaultFilter(r)

\* C23 as stated: a delete of an existing record returns what get_item
\* returned before the call and removes exactly that record: count decreases
\* by one, every other record is unchanged, exists is false and get_item
\* raises ItemNotFound afterwards.
DeleteDecrementsCount ==
    Deleted =>
        /\ DeleteRemovesRecord
        /\ Count(sdb, <<>>) = ReturnInt(Count(sprev, <<>>).n - 1)
        /\ AsyncCount(adb, <<>>) = ReturnInt(AsyncCount(aprev, <<>>).n - 1)

\* C23 as amended: a delete of an existing record returns what get_item
\* returned before the call and removes exactly that record: the number of
\* stored records decreases by one, count() decreases by one when the record
\* passed the default filter and is unchanged when it did not, every other
\* record is unchanged, exists is false and get_item raises ItemNotFound
\* afterwards.
DeleteRemovesExactlyOne ==
    Deleted =>
        /\ DeleteRemovesRecord
        /\ Count(sdb, <<>>)
              = ReturnInt(Count(sprev, <<>>).n - (IF DeletedWasCounted THEN 1 ELSE 0))
        /\ AsyncCount(adb, <<>>)
              = ReturnInt(AsyncCount(aprev, <<>>).n - (IF DeletedWasCounted THEN 1 ELSE 0))

\* A delete removed one of two stored records, one that count() counted.
DeleteWitness ==
    /\ Deleted /\ DeletedWasCounted
    /\ Cardinality(sprev) = 2 /\ Cardinality(sdb) = 1
    /\ Count(sdb, <<>>) = ReturnInt(Count(sprev, <<>>).n - 1)

\* The last call was an update that returned in both repositories.
Updated == call.op = "update" /\ sres.err = "none" /\ ares.err = "none"

\* A model carries what the update form set, on the record with the given key.
CarriesForm(m, item_id, form, tbl) ==
    /\ m.id = item_id
    /\ m.text = form.text
    /\ ~IsNull(form.username) => m.username = form.username
    /\ \E old \in tbl : /\ old.id = item_id
                        /\ m.author_id = old.author_id
                        /\ IsNull(form.username) => m.username = old.username

Created == call.op = "create" /\ sres.err = "none" /\ ares.err = "none"

\* The length of get_collection() on a table.
CollectionLength(tbl) ==
    Len(GetCollection(tbl, <<>>, <<>>, <<>>, [k \in StoredIds(tbl) |-> k]).items)
AsyncCollectionLength(tbl) ==
    Len(AsyncGetCollection(tbl, <<>>, <<>>, <<>>, [k \in StoredIds(tbl) |-> k]).items)

\* What create returned and what it left stored: a model with a populated
\* identifier that no record stored before has; one record more, the earlier
\* ones as they were; exists true for the new identifier.
CreateAddsRecord(m, tbl, before) ==
    /\ m.id >= 1 /\ m.id \notin StoredIds(before)
    /\ Cardinality(tbl) = Cardinality(before) + 1
    /\ before \subseteq tbl
    /\ \E r \in tbl \ before : ConvertDbItemToModel(r) = m

\* The created record passes the repository's default filter.
CreatedIsCounted == \E r \in sdb \ sprev : PassesDefaultFilter(r)

\* C25 as stated: a successful create adds exactly one record: count and the
\* length of get_collection() grow by one, exists(returned id) is true, the
\* returned identifier is populated and new, earlier records are unchanged.
CreateIncrementsCount ==
    Created =>
        /\ CreateAddsRecord(sres.items[1], sdb, sprev)
        /\ CreateAddsRecord(ares.items[1], adb, aprev)
        /\ Exists(sdb, sres.items[1].id) = ReturnBool(TRUE)
        /\ AsyncExists(adb, ares.items[1].id) = ReturnBool(TRUE)
        /\ Count(sdb, <<>>) = ReturnInt(Count(sprev, <<>>).n + 1)
        /\ AsyncCount(adb, <<>>) = ReturnInt(AsyncCount(aprev, <<>>).n + 1)
        /\ CollectionLength(sdb) = CollectionLength(sprev) + 1
        /\ AsyncCollectionLength(adb) = AsyncCollectionLength(aprev) + 1

\* C25 as amended: a successful create adds exactly one record: the number of
\* stored records grows by one, count() and the length of get_collection()
\* grow by one when the new record passes the default filter and are
\* unchanged when it does not, exists(returned id) is true, the returned
\* identifier is populated and new, earlier records are unchanged.
CreateAddsExactlyOne ==
    Created =>
        LET one == IF CreatedIsCounted THEN 1 ELSE 0
        IN  /\ CreateAddsRecord(sres.items[1], sdb, sprev)
            /\ CreateAddsRecord(ares.items[1], adb, aprev)
            /\ Exists(sdb, sres.items[1].id) = ReturnBool(TRUE)
            /\ AsyncExists(adb, ares.items[1].id) = ReturnBool(TRUE)
            /\ Count(sdb, <<>>) = ReturnInt(Count(sprev, <<>>).n + one)
            /\ AsyncCount(adb, <<>>) = ReturnInt(AsyncCount(aprev, <<>>).n + one)
            /\ CollectionLength(sdb) = CollectionLength(sprev) + one
            /\ AsyncCollectionLength(adb) = AsyncCollectionLength(aprev) + one

\* A second record was created after the first, and count() counts it.
CreateWitness ==
    /\ Created /\ CreatedIsCounted
    /\ Cardinality(sprev) = 1 /\ Cardinality(sdb) = 2
    /\ sres.items[1].id = 2
    /\ Count(sdb, <<>>) = ReturnInt(Count(sprev, <<>>).n + 1)

\* ------------------------------------------------- properties of membership leaves
\* The last call filtered with one IN or NOT_IN leaf.
MembershipRead ==
    FilteredRead /\ CallFilter.kind = "Attr" /\ CallFilter.op \in {"IN", "NOT_IN"}

\* A record is selected by the membership leaf of the call: its key is among
\* the elements for IN, not among them for NOT_IN.
InMembership(m) ==
    LET among == \E i \in DOMAIN CallFilter.value.l : CallFilter.value.l[i] = IntV(m.id)
    IN  IF CallFilter.op = "IN" THEN among ELSE ~among

\* The call returned, and what it returned is the membership test: the
\* records returned are selected by the leaf, and the stored records that
\* pass the default filter and are selected by the leaf are returned (or
\* counted).
MembershipTested(res, tbl) ==
    /\ res.err = "none"
    /\ call.op = "get_collection" =>
          /\ \A m \in ItemSet(res) : InMembership(m)
          /\ \A m \in Passing(tbl) : InMembership(m) => m \in ItemSet(res)
    /\ call.op = "count" => res.n >= Cardinality({m \in Passing(tbl) : InMembership(m)})

\* The call raised ValueError, and it is is_satisfied_by that raised it: the
\* converter returned the leaf's backend counterpart.
RaisedAtEvaluation ==
    /\ sres = RaiseError("ValueError") /\ ares = RaiseError("ValueError")
    /\ convert(CallFilter).err = "none"
    /\ is_satisfied_by(convert(CallFilter).val).err = "ValueError"

\* C26 as stated: an IN or NOT_IN leaf whose value is a list or a tuple, an
\* empty one included, evaluates to the membership test without error; the
\* ValueError is raised only for values that are no sequences, and by
\* is_satisfied_by, never by the converter.
SequencesAreTested ==
    MembershipRead =>
        IF CallFilter.value.t \in {"list", "tuple"}
        THEN MembershipTested(sres, sprev) /\ MembershipTested(ares, aprev)
        ELSE RaisedAtEvaluation

\* C26 as amended: an IN or NOT_IN leaf whose value is a list, an empty one
\* included, evaluates to the membership test without error; the ValueError
\* is raised for every value that is not a list, a tuple included, and by
\* is_satisfied_by, never by the converter.
ListsAreTested ==
    MembershipRead =>
        IF CallFilter.value.t = "list"
        THEN MembershipTested(sres, sprev) /\ MembershipTested(ares, aprev)
        ELSE RaisedAtEvaluation

\* get_collection filtered with NOT_IN over the empty list returned records,
\* and count filtered with IN over a tuple raised ValueError.
MembershipWitness ==
    /\ MembershipRead
    /\ \/ /\ call.op = "get_collection" /\ CallFilter.op = "NOT_IN"
          /\ CallFilter.value = ListV(<<>>) /\ Len(sres.items) > 0
       \/ /\ call.op = "count" /\ CallFilter.op = "IN"
          /\ CallFilter.value = TupleV(<<IntV(1), IntV(3)>>) /\ RaisedAtEvaluation

\* ------------------------------------------------- properties of empty composites
RECURSIVE HasEmptyComposite(_)
\* The specification is, or holds at any depth, an And or an Or without
\* children.
HasEmptyComposite(f) ==
    \/ f.kind \in {"And", "Or"} /\ f.specs = <<>>
    \/ f.kind \in {"And", "Or", "Not"} /\ \E i \in DOMAIN f.specs : HasEmptyComposite(f.specs[i])

\* The last call filtered with a specification holding an empty And or Or.
EmptyCompositeRead == FilteredRead /\ HasEmptyComposite(CallFilter)

\* C27: a filter holding an And or an Or with no children, at the root or
\* nested, is rejected with an error in both repositories; it is never
\* evaluated into a query that returns records.
EmptyCompositeRejected ==
    EmptyCompositeRead => sres.err # "none" /\ ares.err # "none"

\* get_collection filtered with And() returned every stored record.
EmptyCompositeReturnsAll ==
    /\ EmptyCompositeRead /\ call.op = "get_collection"
    /\ CallFilter = AndSpecification(<<>>)
    /\ sres.err = "none" /\ ItemSet(sres) = sprev /\ sprev # {}

\* ------------------------------------------------- properties of failed mutations
\* C28: a create or update that raised an error, whatever the error and
\* whatever the step that raised it, a refresh after the commit included,
\* left the stored records as they were before the call.
FailedMutationChangesNothing ==
    (call.op \in {"create", "update"} /\ (sres.err # "none" \/ ares.err # "none"))
    => sdb = sprev /\ adb = aprev

\* ------------------------------------------------- properties of translation errors
\* The error the translation of a filter ends in: the converter's, or else
\* that of is_satisfied_by; "none" when the filter translates.
TranslationError(f) ==
    IF convert(f).err # "none" THEN convert(f).err
    ELSE is_satisfied_by(convert(f).val).err

\* The last call was given a filter whose translation ends in a ValueError
\* or a TypeError.
UntranslatableRead ==
    FilteredRead /\ TranslationError(CallFilter) \in {"ValueError", "TypeError"}

\* C29: when the filter given to get_collection or count cannot be
\* translated, the ValueError or TypeError reaches the caller from that call,
\* no query was executed against the backend, no stored record changed, and
\* the session the call acquired was released.
TranslationErrorIsClean ==
    UntranslatableRead =>
        /\ sres = RaiseError(TranslationError(CallFilter)) /\ ares = sres
        /\ Places(slog, "execute") = {} /\ Places(alog, "execute") = {}
        /\ sdb = sprev /\ adb = aprev
        /\ OneSessionReleased(slog) /\ OneSessionReleased(alog)

\* count was given an untranslatable filter over stored records: the session
\* was acquired, rolled back and released, and nothing else was done with it.
TranslationErrorWitness ==
    /\ UntranslatableRead /\ call.op = "count" /\ sdb # {}
    /\ slog = <<"session", "rollback", "close", "remove">> /\ alog = slog

\* ------------------------------------------------- a concurrent update and delete
\* Two callers, each with a session of its own (two threads of the blocking
\* repository, two tasks of the suspending one), call update(item_id, form)
\* and delete(item_id) for one stored record at the same time. Both
\* repositories run the same statements against their stores, so one course
\* of the race stands for both.
StartRace ==
    /\ call = Idle /\ tasks = NoTasks /\ sdb = adb
    /\ \E r \in sdb, form \in UpdateForms :
          tasks' = [NoTasks EXCEPT !.item_id = r.id, !.form = form,
                                   !.upc = "select", !.dpc = "select"]
    /\ UNCHANGED <<hooks, sdb, adb, call, sres, ares, sprev, aprev, raised, created, slog, alog>>

\* The next statement of update: the SELECT by identifier (one()); the commit,
\* which flushes the UPDATE of the loaded item by its key and fails with
\* StaleDataError when no row matched; the refresh, which reads the row back
\* and fails with InvalidRequestError when it is gone. NoResultFound becomes
\* ItemNotFound, an IntegrityError goes through _check_violations, and any
\* other error leaves update as it is.
UpdateStep ==
    LET found == QueryOne(ApplyIdFilterCondition(NewQuery, tasks.item_id), sdb)
        db_item == CHOOSE r \in tasks.uitem : TRUE
        violated == Violation(db_item, sdb \ found.rows)
        ends(res) == tasks' = [tasks EXCEPT !.upc = "done", !.ures = res]
    IN  /\ tasks.upc \in {"select", "commit", "refresh"}
        /\ \/ /\ tasks.upc = "select"
              /\ IF found.err = "NoResultFound"
                 THEN ends(ItemNotFoundException(tasks.item_id))
                 ELSE tasks' = [tasks EXCEPT
                                   !.upc = "commit",
                                   !.uitem = {UpdateDbItem(r, tasks.form) : r \in found.rows}]
              /\ UNCHANGED <<sdb, adb>>
           \/ /\ tasks.upc = "commit"
              /\ IF found.err = "NoResultFound"
                 THEN ends(RaiseError("StaleDataError")) /\ UNCHANGED <<sdb, adb>>
                 ELSE IF violated # "none"
                 THEN /\ ends(CheckViolations(IntegrityText("sqlite", violated),
                                              tasks.form, "update"))
                      /\ UNCHANGED <<sdb, adb>>
                 ELSE /\ tasks' = [tasks EXCEPT !.upc = "refresh"]
                      /\ sdb' = (sdb \ found.rows) \cup tasks.uitem
                      /\ adb' = sdb'
           \/ /\ tasks.upc = "refresh"
              /\ IF found.err = "NoResultFound"
                 THEN ends(RaiseError("InvalidRequestError"))
                 ELSE ends(ReturnModel(ConvertDbItemToModel(CHOOSE r \in found.rows : TRUE)))
              /\ UNCHANGED <<sdb, adb>>
        /\ UNCHANGED <<hooks, call, sres, ares, sprev, aprev, raised, created, slog, alog>>

\* The next statement of delete: the SELECT by identifier (one()); the commit,
\* which flushes the DELETE of the loaded item by its key, after which the
\* model of the loaded item is returned.
DeleteStep ==
    LET found == QueryOne(ApplyIdFilterCondition(NewQuery, tasks.item_id), sdb)
    IN  /\ tasks.dpc \in {"select", "commit"}
        /\ \/ /\ tasks.dpc = "select"
              /\ IF found.err = "NoResultFound"
                 THEN tasks' = [tasks EXCEPT !.dpc = "done",
                                             !.dres = ItemNotFoundException(tasks.item_id)]
                 ELSE tasks' = [tasks EXCEPT !.dpc = "commit", !.ditem = found.rows]
              /\ UNCHANGED <<sdb, adb>>
           \/ /\ tasks.dpc = "commit"
              /\ tasks' = [tasks EXCEPT
                              !.dpc = "done",
                              !.dres = ReturnModel(ConvertDbItemToModel(
                                           CHOOSE r \in tasks.ditem : TRUE))]
              /\ sdb' = sdb \ found.rows
              /\ adb' = sdb'
        /\ UNCHANGED <<hooks, call, sres, ares, sprev, aprev, raised, created, slog, alog>>

\* Both callers have their outcome and take it.
EndRace ==
    /\ tasks.upc = "done" /\ tasks.dpc = "done"
    /\ tasks' = NoTasks
    /\ UNCHANGED <<hooks, sdb, adb, call, sres, ares, sprev, aprev, raised, created, slog, alog>>

NextRace == StartRace \/ UpdateStep \/ DeleteStep \/ EndRace

SpecRace == InitFilter /\ [][NextRace]_vars

\* ------------------------------------------------- properties of the race
\* The outcomes update and delete document.
UpdateOutcomes == {"none", "ItemNotFound", "UniqueViolation", "RelationViolation"}
DeleteOutcomes == {"none", "ItemNotFound"}

\* Update has just reported success.
UpdateReported == tasks.ures.err # "none" /\ tasks'.ures.err = "none"

\* C30: under every interleaving of a concurrent update and delete of one
\* stored record, update ends with the updated model, ItemNotFound or a
\* constraint violation and delete with the deleted model or ItemNotFound,
\* neither ends with an unclassified backend error, and update reports
\* success only while the record is stored.
RaceEndsDocumented ==
    /\ [](/\ tasks.upc = "done" => tasks.ures.err \in UpdateOutcomes
          /\ tasks.dpc = "done" => tasks.dres.err \in DeleteOutcomes)
    /\ [][UpdateReported => \E r \in sdb : r.id = tasks.item_id]_vars

====
